---- MODULE Spec2Model ----
(***************************************************************************)
(* UnoStat: the collection/export pipeline (Collection Manager, bounded    *)
(* metrics channel, CSV exporter with buffering and rotation) and the      *)
(* in-memory CSV data service of the visualisation server.                 *)
(*                                                                         *)
(* Numbers: every float64 metric is an integer number of thousandths; a    *)
(* formatted "%.2f" cell is an integer number of hundredths.  Instants are *)
(* integer seconds.  A file path <base>_<n><ext> is its index n, the       *)
(* configured output path is index 0.                                      *)
(***************************************************************************)
EXTENDS Integers, Sequences, FiniteSets, TLC

VARIABLES
    ctxDone,        \* the context shared by manager and exporter is cancelled
    mainPc,         \* position of runCollect
    mgrPc,          \* position of Manager.Start
    now,            \* wall clock, seconds
    ticksLeft,      \* sampling passes the run may still take
    samplers,       \* firstRun / prevStats of the CPU, disk and network collectors
    queue,          \* metricsChan: buffered channel of snapshots
    chanClosed,     \* close(metricsChan) has run
    dropWarnings,   \* "Metrics channel full, dropping snapshot" records logged
    sent,           \* history: every snapshot accepted by the channel, in order
    sinkPc,         \* position of CSVExporter.Start
    e,              \* the CSVExporter struct
    fs,             \* the file system: path index -> lines on disk
    cfg,            \* config.Config fields the exporter reads
    rotFaults,      \* I/O faults the environment may still inject inside rotateFile
    flushFaults,    \* I/O faults the environment may still inject in other flushes
    files,          \* CSVDataService.files: id -> metadata
    columnData,     \* CSVDataService.columnData: id -> parsed columns
    calls,          \* in-flight CSVDataService calls, one slot per request goroutine
    uploads         \* the upload directory: path -> file on disk

pipeVars == <<ctxDone, mainPc, mgrPc, now, ticksLeft, samplers, queue, chanClosed,
              dropWarnings, sent, sinkPc, e, fs, cfg, rotFaults, flushFaults>>
storeVars == <<files, columnData, calls, uploads>>
vars == <<pipeVars, storeVars>>

(***************************************************************************)
(* Bounds of the model.                                                    *)
(***************************************************************************)
MaxTicks == 12          \* sampling passes per run of Spec
MaxSinkTicks == 3       \* sampling passes per run of SpecSink
MaxColsTicks == 2       \* sampling passes per run of SpecCols
MaxRotFaults == 1       \* injected rotateFile faults per run of SpecSink
MaxFlushFaults == 1     \* injected flush faults per run of SpecSink
MaxPreExisting == 2     \* rotated files left by earlier runs: <base>_1 .. <base>_k

(***************************************************************************)
(* Program constants.                                                      *)
(***************************************************************************)
QueueCap == 10
DefaultMaxOutputFileSize == 157286400
startUpDelay == 1
SamplingInterval == 30
TimestampLen == 19
DstShift == 3600
DstEnd == 50

Min(a, b) == IF a < b THEN a ELSE b

(***************************************************************************)
(* pkg/metrics: Snapshot, DiskStats, NetStats.                             *)
(***************************************************************************)
Devices == {"sda", "sdb"}
Interfaces == {"eth0", "eth1"}
NamesSorted == <<"eth0", "eth1", "sda", "sdb">>

DiskStatsOf(d) ==
    IF d = "sda" THEN [Utilization |-> 20000, Await |-> 10000, IOPS |-> 150000]
                 ELSE [Utilization |-> 99996, Await |-> 1234, IOPS |-> 0]

NetStatsOf(i) ==
    IF i = "eth0" THEN [Bandwidth |-> 20000000] ELSE [Bandwidth |-> 1234567]

(***************************************************************************)
(* pkg/metrics: the delta engine.  Raw statistics are records of counters  *)
(* and a Timestamp in whole seconds; ZeroTime is the zero time.Time.  CPU  *)
(* times are float64 seconds, modelled as integers that may be negative.   *)
(* Disk and network counters are uint64, modelled as unsigned integers of  *)
(* CounterMod values: their sums, differences and products wrap modulo     *)
(* CounterMod.  Results are float64, counted in thousandths (bandwidth in  *)
(* whole bits per second).                                                 *)
(***************************************************************************)
CounterMod == 4096
ZeroTime == -1000000

IsZero(t) == t = ZeroTime
Wrap(x) == x % CounterMod

CPUTimeStats(user, system, idle, iowait, t) ==
    [User |-> user, System |-> system, Idle |-> idle, IOWait |-> iowait,
     Irq |-> 0, SoftIrq |-> 0, Steal |-> 0, Guest |-> 0, GuestNice |-> 0,
     Timestamp |-> t]

DiskIOStats(reads, writes, readTime, writeTime, ioTime, t) ==
    [ReadCount |-> reads, WriteCount |-> writes, ReadTime |-> readTime,
     WriteTime |-> writeTime, IOTime |-> ioTime, Timestamp |-> t]

NetworkIOStats(bytesSent, bytesRecv, t) ==
    [BytesSent |-> bytesSent, BytesRecv |-> bytesRecv, Timestamp |-> t]

\* User + System + Idle + IOWait + Irq + SoftIrq + Steal
TotalCPU(c) == c.User + c.System + c.Idle + c.IOWait + c.Irq + c.SoftIrq + c.Steal

\* CalculateCPUUtilization: 100.0 * (1.0 - deltaIdle/deltaTotal)
CalculateCPUUtilization(prev, current) ==
    LET deltaTotal == TotalCPU(current) - TotalCPU(prev)
        deltaIdle == current.Idle - prev.Idle
    IN  IF IsZero(prev.Timestamp) THEN 0
        ELSE IF deltaTotal <= 0 THEN 0
        ELSE (100000 * (deltaTotal - deltaIdle)) \div deltaTotal

\* a CalculateCPUIOWait that answers 0 where no previous sample exists
CalculateCPUIOWaitZero(prev, current) ==
    LET deltaTotal == TotalCPU(current) - TotalCPU(prev)
        deltaIOWait == current.IOWait - prev.IOWait
    IN  IF IsZero(prev.Timestamp) THEN 0
        ELSE IF current.IOWait < 0 THEN -1000
        ELSE IF deltaTotal <= 0 THEN 0
        ELSE (100000 * deltaIOWait) \div deltaTotal

\* CalculateCPUIOWait: 100.0 * (deltaIOWait / deltaTotal)
CalculateCPUIOWait(prev, current) ==
    LET deltaTotal == TotalCPU(current) - TotalCPU(prev)
        deltaIOWait == current.IOWait - prev.IOWait
    IN  IF IsZero(prev.Timestamp) THEN -1000
        ELSE IF current.IOWait < 0 THEN -1000
        ELSE IF deltaTotal <= 0 THEN 0
        ELSE (100000 * deltaIOWait) \div deltaTotal

\* a CalculateDiskUtilization without the cap at 100
CalculateDiskUtilizationUncapped(prev, current) ==
    LET deltaTime == (current.Timestamp - prev.Timestamp) * 1000
        deltaIOTime == Wrap(current.IOTime - prev.IOTime)
    IN  IF IsZero(prev.Timestamp) THEN 0
        ELSE IF deltaTime <= 0 THEN 0
        ELSE (deltaIOTime * 100000) \div deltaTime

\* CalculateDiskUtilization: deltaTime is in milliseconds
CalculateDiskUtilization(prev, current) ==
    LET deltaTime == (current.Timestamp - prev.Timestamp) * 1000
        deltaIOTime == Wrap(current.IOTime - prev.IOTime)
        utilization == (deltaIOTime * 100000) \div deltaTime
    IN  IF IsZero(prev.Timestamp) THEN 0
        ELSE IF deltaTime <= 0 THEN 0
        ELSE IF utilization > 100000 THEN 100000
        ELSE utilization

\* CalculateDiskAwait: milliseconds per operation
CalculateDiskAwait(prev, current) ==
    LET deltaReadCount == Wrap(current.ReadCount - prev.ReadCount)
        deltaWriteCount == Wrap(current.WriteCount - prev.WriteCount)
        totalOps == Wrap(deltaReadCount + deltaWriteCount)
        deltaReadTime == Wrap(current.ReadTime - prev.ReadTime)
        deltaWriteTime == Wrap(current.WriteTime - prev.WriteTime)
        totalTime == Wrap(deltaReadTime + deltaWriteTime)
    IN  IF IsZero(prev.Timestamp) THEN 0
        ELSE IF totalOps = 0 THEN 0
        ELSE (totalTime * 1000) \div totalOps

\* CalculateDiskIOPS: operations per second
CalculateDiskIOPS(prev, current) ==
    LET deltaTime == current.Timestamp - prev.Timestamp
        deltaReadCount == Wrap(current.ReadCount - prev.ReadCount)
        deltaWriteCount == Wrap(current.WriteCount - prev.WriteCount)
        totalOps == Wrap(deltaReadCount + deltaWriteCount)
    IN  IF IsZero(prev.Timestamp) THEN 0
        ELSE IF deltaTime <= 0 THEN 0
        ELSE (totalOps * 1000) \div deltaTime

\* CalculateNetworkBandwidth: bits per second
CalculateNetworkBandwidth(prev, current) ==
    LET deltaTime == current.Timestamp - prev.Timestamp
        deltaSent == Wrap(current.BytesSent - prev.BytesSent)
        deltaRecv == Wrap(current.BytesRecv - prev.BytesRecv)
        totalBytes == Wrap(deltaSent + deltaRecv)
    IN  IF IsZero(prev.Timestamp) THEN 0
        ELSE IF deltaTime <= 0 THEN 0
        ELSE Wrap(totalBytes * 8) \div deltaTime

(***************************************************************************)
(* internal/collector: the per-resource collectors.  A reading is what the *)
(* operating system hands the collector in one pass: an error, or the      *)
(* monitored devices together with the metrics their counters yield        *)
(* against the counters the collector kept from its previous pass.         *)
(***************************************************************************)
SamplersInit ==
    [cpuFirstRun |-> TRUE, diskFirstRun |-> TRUE, netFirstRun |-> TRUE,
     diskPrev |-> {}, netPrev |-> {}]

\* CPUCollector.Collect: (utilization, iowait, err) and the collector afterwards
CPUCollect(s, r) ==
    IF r.err THEN [err |-> TRUE, util |-> 0, wait |-> -1000, s |-> s]
    ELSE IF s.cpuFirstRun
         THEN [err |-> FALSE, util |-> 0, wait |-> -1000,
               s |-> [s EXCEPT !.cpuFirstRun = FALSE]]
         ELSE [err |-> FALSE, util |-> r.util, wait |-> r.wait, s |-> s]

\* MemoryCollector.Collect
MemoryCollect(r) ==
    IF r.err THEN [err |-> TRUE, util |-> 0] ELSE [err |-> FALSE, util |-> r.util]

\* DiskCollector.Collect: nil on the first run, else the devices seen before
DiskCollect(s, r) ==
    IF r.err THEN [err |-> TRUE, nil |-> TRUE, stats |-> <<>>, s |-> s]
    ELSE IF s.diskFirstRun
         THEN [err |-> FALSE, nil |-> TRUE, stats |-> <<>>,
               s |-> [s EXCEPT !.diskFirstRun = FALSE, !.diskPrev = r.devs]]
         ELSE [err |-> FALSE, nil |-> FALSE,
               stats |-> [d \in (r.devs \cap s.diskPrev) |-> r.stats[d]],
               s |-> [s EXCEPT !.diskPrev = @ \cup r.devs]]

\* NetworkCollector.Collect
NetworkCollect(s, r) ==
    IF r.err THEN [err |-> TRUE, nil |-> TRUE, stats |-> <<>>, s |-> s]
    ELSE IF s.netFirstRun
         THEN [err |-> FALSE, nil |-> TRUE, stats |-> <<>>,
               s |-> [s EXCEPT !.netFirstRun = FALSE, !.netPrev = r.ifs]]
         ELSE [err |-> FALSE, nil |-> FALSE,
               stats |-> [i \in (r.ifs \cap s.netPrev) |-> r.stats[i]],
               s |-> [s EXCEPT !.netPrev = @ \cup r.ifs]]

\* the snapshot Manager.collectOnce has built when wg.Wait() returns
BuildSnapshot(s, r, t) ==
    LET c == CPUCollect(s, r.cpu)
        m == MemoryCollect(r.mem)
        d == DiskCollect(c.s, r.disk)
        n == NetworkCollect(d.s, r.net)
    IN  [snap |-> [Timestamp |-> t,
                   CPU |-> IF c.err THEN 0 ELSE c.util,
                   CPUWait |-> IF c.err THEN 0 ELSE c.wait,
                   Memory |-> IF m.err THEN 0 ELSE m.util,
                   Disks |-> IF d.err \/ d.nil THEN <<>> ELSE d.stats,
                   Networks |-> IF n.err \/ n.nil THEN <<>> ELSE n.stats],
         s |-> n.s]

\* select { case metricsChan <- snapshot: ... default: ... }
TrySendAlways(q, s) == [q |-> Append(q, s), ok |-> TRUE]

TrySend(q, s) ==
    IF Len(q) < QueueCap THEN [q |-> Append(q, s), ok |-> TRUE]
                         ELSE [q |-> q, ok |-> FALSE]

\* collectOnce without the test for an empty disk or network contribution
collectOnceUnchecked(r, t) ==
    LET b == BuildSnapshot(samplers, r, t)
        send == TrySend(queue, b.snap)
    IN  /\ samplers' = b.s
        /\ queue' = send.q
        /\ sent' = IF send.ok THEN Append(sent, b.snap) ELSE sent
        /\ dropWarnings' = IF send.ok THEN dropWarnings ELSE dropWarnings + 1

\* Manager.collectOnce at instant t with reading r
collectOnce(r, t) ==
    LET b == BuildSnapshot(samplers, r, t)
        disksEmpty == DOMAIN b.snap.Disks = {}
        netsEmpty == DOMAIN b.snap.Networks = {}
        send == TrySend(queue, b.snap)
    IN  /\ samplers' = b.s
        /\ IF disksEmpty \/ netsEmpty
           THEN UNCHANGED <<queue, sent, dropWarnings>>
           ELSE /\ queue' = send.q
                /\ sent' = IF send.ok THEN Append(sent, b.snap) ELSE sent
                /\ dropWarnings' = IF send.ok THEN dropWarnings ELSE dropWarnings + 1

OkCpu(w) == [err |-> FALSE, util |-> 50128, wait |-> w]
OkMem == [err |-> FALSE, util |-> 70000]
OkDisk(D) == [err |-> FALSE, devs |-> D, stats |-> [d \in D |-> DiskStatsOf(d)]]
OkNet(I) == [err |-> FALSE, ifs |-> I, stats |-> [i \in I |-> NetStatsOf(i)]]

\* readings of a machine whose devices never change
SteadyReadings ==
    {[cpu |-> OkCpu(2500), mem |-> OkMem, disk |-> OkDisk({"sda"}), net |-> OkNet({"eth0"})]}

\* readings of a machine whose disks and interfaces come and go; its iowait is
\* unsupported (negative) in the passes that see one interface
VaryingReadings ==
    {[cpu |-> OkCpu(IF I = {"eth0"} THEN -1000 ELSE 2500), mem |-> OkMem,
      disk |-> OkDisk(D), net |-> OkNet(I)] :
        D \in {{"sda"}, {"sda", "sdb"}}, I \in {{"eth0"}, {"eth0", "eth1"}}}

\* normalizeDeviceName: a name of the list-devices form loses its /dev/ prefix
normalizeDeviceName(name) ==
    CASE name = "/dev/sda" -> "sda"
      [] name = "/dev/sdb" -> "sdb"
      [] OTHER -> name

normalizeDeviceList(devices) ==
    [i \in 1 .. Len(devices) |-> normalizeDeviceName(devices[i])]

\* a filter that consults the include list before the exclude list
ShouldMonitorIncludeFirst(deviceName, includeDevices, excludeDevices) ==
    IF \E i \in 1 .. Len(includeDevices) : includeDevices[i] = deviceName THEN TRUE
    ELSE IF \E i \in 1 .. Len(excludeDevices) : excludeDevices[i] = deviceName THEN FALSE
    ELSE Len(includeDevices) = 0

\* DiskCollector.shouldMonitor, on the collector's (normalized) lists
DiskShouldMonitor(deviceName, includeDevices, excludeDevices) ==
    IF /\ Len(excludeDevices) > 0
       /\ \E i \in 1 .. Len(excludeDevices) : excludeDevices[i] = deviceName
    THEN FALSE
    ELSE IF Len(includeDevices) = 0 THEN TRUE
    ELSE \E i \in 1 .. Len(includeDevices) : includeDevices[i] = deviceName

\* NetworkCollector.shouldMonitor
NetShouldMonitor(interfaceName, includeInterfaces, excludeInterfaces) ==
    IF /\ Len(excludeInterfaces) > 0
       /\ \E i \in 1 .. Len(excludeInterfaces) : excludeInterfaces[i] = interfaceName
    THEN FALSE
    ELSE IF Len(includeInterfaces) = 0 THEN TRUE
    ELSE \E i \in 1 .. Len(includeInterfaces) : includeInterfaces[i] = interfaceName

\* NetworkCollector.isLoopback
isLoopback(interfaceName) == interfaceName \in {"lo", "lo0", "Loopback"}

\* CPUCollector.getIOWait on platform goos; t is the cpu.TimesStat
getIOWait(goos, t) ==
    CASE goos = "windows" -> -1
      [] goos = "darwin" -> IF t.Iowait = 0 THEN -1 ELSE t.Iowait
      [] goos = "linux" -> t.Iowait
      [] OTHER -> -1

\* CPUCollector.getCPUTimeStats after a successful cpu.Times, read at instant at
getCPUTimeStats(goos, t, at) ==
    CPUTimeStats(t.User, t.System, t.Idle, getIOWait(goos, t), at)

\* DiskCollector.getIOTime
getIOTime(goos, counter) ==
    IF goos = "windows" /\ counter.IoTime = 0
    THEN Wrap(counter.ReadTime + counter.WriteTime)
    ELSE counter.IoTime

(***************************************************************************)
(* internal/exporter: rows, cells and their formatting.                    *)
(*   a header line is [hdr |-> TRUE, cols |-> column names, cells |-> <<>>] *)
(*   a data line is [hdr |-> FALSE, cols |-> <<>>, cells |-> cells]         *)
(*   a cell is [k |-> "ts" | "num" | "na", v |-> integer]                   *)
(***************************************************************************)
naString == [k |-> "na", v |-> 0]
NumCell(h) == [k |-> "num", v |-> h]
TsCell(t) == [k |-> "ts", v |-> t]
HeaderLine(cols) == [hdr |-> TRUE, cols |-> cols, cells |-> <<>>]
RowLine(cells) == [hdr |-> FALSE, cols |-> <<>>, cells |-> cells]
\* what an earlier run or another program left in a file
ForeignLine == [hdr |-> FALSE, cols |-> <<"existing data 1">>, cells |-> <<>>]

\* fmt.Sprintf("%.2f", x): x counted in units of which `unit` make one hundredth
Fmt2(x, unit) ==
    IF x >= 0 THEN NumCell((x + unit \div 2) \div unit)
              ELSE NumCell(-((-x + unit \div 2) \div unit))

\* time.Location: seconds east of UTC at instant t; the second zone ends
\* daylight saving time at DstEnd
UtcOffset(loc, t) ==
    IF loc = "America/New_York" /\ t < DstEnd THEN DstShift ELSE 0

\* snapshot.Timestamp.In(e.location).Format("2006-01-02 15:04:05"): the local
\* wall-clock reading, to the second
FormatTimestamp(loc, t) == TsCell(t + UtcOffset(loc, t))

RECURSIVE Digits(_)
Digits(n) == IF n < 10 THEN 1 ELSE 1 + Digits(n \div 10)

\* len(cell) of a data cell
CellLen(c) ==
    IF c.k = "ts" THEN TimestampLen
    ELSE IF c.k = "na" THEN 3
    ELSE IF c.v < 0 THEN 4 + Digits((-c.v) \div 100)
    ELSE 3 + Digits(c.v \div 100)

RECURSIVE SumCellLen(_)
SumCellLen(row) ==
    IF row = <<>> THEN 0 ELSE CellLen(Head(row)) + 1 + SumCellLen(Tail(row))

\* rowBytes of writeSnapshot
RowBytes(row) == SumCellLen(row) + 1

\* sort.Strings over the keys of a map
SortStrings(S) == SelectSeq(NamesSorted, LAMBDA n : n \in S)

RECURSIVE FlatMap(_, _)
FlatMap(F(_), seq) ==
    IF seq = <<>> THEN <<>> ELSE F(Head(seq)) \o FlatMap(F, Tail(seq))

DiskColumns(d) ==
    << "Disk [" \o d \o "] Utilization (%)",
       "Disk [" \o d \o "] Average Wait (ms)",
       "Disk [" \o d \o "] Throughput (IOPS)" >>
NetColumns(i) == << "Network [" \o i \o "] Throughput (Mbps)" >>

\* the header row writeHeader builds for the orders it has just fixed
HeaderRow(deviceOrder, ifaceOrder) ==
    <<"Timestamp", "CPU Utilization (%)", "CPU IO Wait (%)", "Memory Utilization (%)">>
    \o FlatMap(DiskColumns, deviceOrder) \o FlatMap(NetColumns, ifaceOrder)

\* a formatCPUWait that prints the sentinel as a number
formatCPUWaitSigned(cpuWait) == Fmt2(cpuWait, 10)

\* CSVExporter.formatCPUWait
formatCPUWait(cpuWait) ==
    IF cpuWait < 0 THEN naString ELSE Fmt2(cpuWait, 10)

\* the three cells of one disk, the cell of one interface
DiskCells(snapshot, device) ==
    IF device \in DOMAIN snapshot.Disks
    THEN << Fmt2(snapshot.Disks[device].Utilization, 10),
            Fmt2(snapshot.Disks[device].Await, 10),
            Fmt2(snapshot.Disks[device].IOPS, 10) >>
    ELSE << naString, naString, naString >>

NetCells(snapshot, iface) ==
    IF iface \in DOMAIN snapshot.Networks
    THEN << Fmt2(snapshot.Networks[iface].Bandwidth, 10000) >>
    ELSE << naString >>

\* CSVExporter.buildRow
buildRow(x, snapshot) ==
    LET D(d) == DiskCells(snapshot, d)
        N(i) == NetCells(snapshot, i)
    IN  << FormatTimestamp(x.location, snapshot.Timestamp),
           Fmt2(snapshot.CPU, 10),
           formatCPUWait(snapshot.CPUWait),
           Fmt2(snapshot.Memory, 10) >>
        \o FlatMap(D, x.deviceOrder) \o FlatMap(N, x.ifaceOrder)

(***************************************************************************)
(* internal/exporter: the CSVExporter and the files it writes.  csvWriter  *)
(* and bufWriter share one bufio buffer (x.buf) whose error is sticky      *)
(* (x.bufErr).  The operators below thread a world                         *)
(*   [x: the exporter, fs: the file system, rot, fl: faults the            *)
(*    environment may still inject, err: the error returned]               *)
(* through the calls of one event of the exporter loop.  The model keeps   *)
(* fewer than 8192 bytes in the buffer, so bufio never writes through on   *)
(* its own, and a failing write leaves nothing of the buffer on disk.      *)
(***************************************************************************)
World(x, f, rot, fl) == [x |-> x, fs |-> f, rot |-> rot, fl |-> fl, err |-> FALSE]

\* csvWriter.Write(line)
csvWrite(w, line) ==
    IF w.x.bufErr THEN [w EXCEPT !.err = TRUE]
    ELSE [w EXCEPT !.x.buf = Append(@, line), !.err = FALSE]

\* a flush that empties the buffer without writing it to the file
flushToDiscard(w, inject) ==
    [w |-> [w EXCEPT !.x.buf = <<>>, !.err = FALSE], hit |-> FALSE]

\* CSVExporter.flush; inject: the environment fails the write to the file
flushTo(w, inject) ==
    IF w.x.bufErr THEN [w |-> [w EXCEPT !.err = TRUE], hit |-> FALSE]
    ELSE IF w.x.buf = <<>> THEN [w |-> [w EXCEPT !.err = FALSE], hit |-> FALSE]
    ELSE IF ~w.x.open
         THEN [w |-> [w EXCEPT !.x.bufErr = TRUE, !.err = TRUE], hit |-> FALSE]
    ELSE IF inject
         THEN [w |-> [w EXCEPT !.x.bufErr = TRUE, !.err = TRUE], hit |-> TRUE]
    ELSE [w |-> [w EXCEPT !.fs[w.x.file] = @ \o w.x.buf, !.x.buf = <<>>, !.err = FALSE],
          hit |-> FALSE]

\* e.flush() of Start and Close
flush(w, inject) ==
    LET r == flushTo(w, inject /\ w.fl > 0)
    IN  IF r.hit THEN [r.w EXCEPT !.fl = @ - 1] ELSE r.w

\* CSVExporter.writeHeader
writeHeader(w, snapshot) ==
    LET dv == SortStrings(DOMAIN snapshot.Disks)
        ifc == SortStrings(DOMAIN snapshot.Networks)
    IN  csvWrite([w EXCEPT !.x.deviceOrder = dv, !.x.ifaceOrder = ifc],
                 HeaderLine(HeaderRow(dv, ifc)))

\* for { e.fileIndex++; if os.IsNotExist(os.Stat(newPath)) { break } }
NextIndexBlind(f, i) == i + 1

RECURSIVE NextFreeIndex(_, _)
NextFreeIndex(f, i) ==
    IF (i + 1) \notin DOMAIN f THEN i + 1 ELSE NextFreeIndex(f, i + 1)

\* os.OpenFile(path, O_CREATE|O_WRONLY|O_TRUNC)
OpenTrunc(f, path) == (path :> <<>>) @@ f

\* CSVExporter.rotateFile; step: the step the environment fails, if any
rotateFile(w, snapshot, step) ==
    LET inj == IF w.rot > 0 THEN step ELSE "none"
        fl1 == flushTo(w, inj = "flush")
        w1 == IF fl1.hit THEN [fl1.w EXCEPT !.rot = @ - 1] ELSE fl1.w
        idx == NextFreeIndex(w1.fs, w1.x.fileIndex)
        closed == [w1 EXCEPT !.x.open = FALSE]
        named == [closed EXCEPT !.x.fileIndex = idx]
        opened == [named EXCEPT !.fs = OpenTrunc(@, idx),
                                !.x.file = idx, !.x.open = TRUE,
                                !.x.buf = <<>>, !.x.bufErr = FALSE,
                                !.x.currentSize = 0, !.x.headerWritten = FALSE]
        hd == writeHeader(opened, snapshot)
    IN  IF w1.err THEN w1
        ELSE IF ~w1.x.open THEN [w1 EXCEPT !.err = TRUE]
        ELSE IF inj = "close" THEN [closed EXCEPT !.rot = @ - 1, !.err = TRUE]
        ELSE IF inj = "open" THEN [named EXCEPT !.rot = @ - 1, !.err = TRUE]
        ELSE IF hd.err THEN hd
        ELSE [hd EXCEPT !.x.headerWritten = TRUE]

\* a writeSnapshot that rotates only once the tracked size is above the limit
\* by more than a row
writeSnapshotLate(w, snapshot, step) ==
    LET h == IF w.x.headerWritten THEN [w EXCEPT !.err = FALSE]
             ELSE writeHeader(w, snapshot)
        w1 == [h EXCEPT !.x.headerWritten = TRUE]
        row == buildRow(w1.x, snapshot)
        w2 == IF w1.x.currentSize >= DefaultMaxOutputFileSize + RowBytes(row)
              THEN rotateFile(w1, snapshot, step)
              ELSE w1
        w3 == csvWrite(w2, RowLine(row))
    IN  IF h.err THEN h
        ELSE IF w3.err THEN w3
        ELSE [w3 EXCEPT !.x.currentSize = @ + RowBytes(row)]

\* CSVExporter.writeSnapshot
writeSnapshot(w, snapshot, step) ==
    LET h == IF w.x.headerWritten THEN [w EXCEPT !.err = FALSE]
             ELSE writeHeader(w, snapshot)
        w1 == [h EXCEPT !.x.headerWritten = TRUE]
        row == buildRow(w1.x, snapshot)
        w2 == IF w1.x.currentSize >= DefaultMaxOutputFileSize
              THEN rotateFile(w1, snapshot, step)
              ELSE w1
        w3 == csvWrite(w2, RowLine(row))
    IN  IF h.err THEN h
        ELSE IF w3.err THEN w3
        ELSE [w3 EXCEPT !.x.currentSize = @ + RowBytes(row)]

\* a receive that flushes only when the count has passed the configured number
receiveFlushLate(w, snapshot, step, inject, bufferSize) ==
    LET w1 == writeSnapshot(w, snapshot, step)
        w2 == [w1 EXCEPT !.x.recordCount = @ + 1]
    IN  IF w2.x.recordCount > bufferSize
        THEN [flush(w2, inject) EXCEPT !.x.recordCount = 0]
        ELSE w2

\* case snapshot, ok := <-e.metricsChan with ok: write, count, flush when
\* the configured number of records is reached
receive(w, snapshot, step, inject, bufferSize) ==
    LET w1 == writeSnapshot(w, snapshot, step)
        w2 == [w1 EXCEPT !.x.recordCount = @ + 1]
    IN  IF w2.x.recordCount >= bufferSize
        THEN [flush(w2, inject) EXCEPT !.x.recordCount = 0]
        ELSE w2

\* case <-e.flushTicker.C
flushTick(w, inject) ==
    IF w.x.recordCount > 0
    THEN [flush(w, inject) EXCEPT !.x.recordCount = 0]
    ELSE w

\* CSVExporter.Close: final flush, then file.Close()
Close(w, inject) == [flush(w, inject) EXCEPT !.x.open = FALSE]

\* a NewCSVExporter that takes a file with content to have its header
NewCSVExporterBare(config, size) ==
    [file |-> 0, open |-> TRUE, buf |-> <<>>, bufErr |-> FALSE, recordCount |-> 0,
     headerWritten |-> size > 0, deviceOrder |-> <<>>, ifaceOrder |-> <<>>,
     location |-> config.Timezone, currentSize |-> size, fileIndex |-> 0]

\* NewCSVExporter: the configured path opened O_CREATE|O_APPEND, size from Stat
NewCSVExporter(config, size) ==
    [file |-> 0, open |-> TRUE, buf |-> <<>>, bufErr |-> FALSE, recordCount |-> 0,
     headerWritten |-> FALSE, deviceOrder |-> <<>>, ifaceOrder |-> <<>>,
     location |-> config.Timezone, currentSize |-> size, fileIndex |-> 0]

(***************************************************************************)
(* cmd/commands runCollect, Manager.Start and CSVExporter.Start as         *)
(* processes.  Each action is one event of a goroutine's select loop.      *)
(***************************************************************************)
StoreIdle == files = <<>> /\ columnData = <<>> /\ calls = <<>> /\ uploads = <<>>

\* runCollect up to the start of both goroutines
InitRun(config, baseLines, baseSize, rotated, ticks, rot, fl) ==
    /\ ctxDone = FALSE
    /\ mainPc = "running"
    /\ mgrPc = "baseline"
    /\ now = 0
    /\ ticksLeft = ticks
    /\ samplers = SamplersInit
    /\ queue = <<>>
    /\ chanClosed = FALSE
    /\ dropWarnings = 0
    /\ sent = <<>>
    /\ sinkPc = "run"
    /\ cfg = config
    /\ e = NewCSVExporter(config, baseSize)
    /\ fs = (0 :> baseLines) @@ [n \in rotated |-> <<ForeignLine>>]
    /\ rotFaults = rot
    /\ flushFaults = fl
    /\ StoreIdle

\* the signal goroutine: cancel()
Cancel ==
    /\ mainPc = "running"
    /\ ~ctxDone
    /\ ctxDone' = TRUE
    /\ UNCHANGED <<mainPc, mgrPc, now, ticksLeft, samplers, queue, chanClosed,
                   dropWarnings, sent, sinkPc, e, fs, cfg, rotFaults, flushFaults>>
    /\ UNCHANGED storeVars

\* Manager.Start: the baseline collection
MgrBaseline(r) ==
    /\ mgrPc = "baseline"
    /\ collectOnce(r, now)
    /\ mgrPc' = "delay"
    /\ UNCHANGED <<ctxDone, mainPc, now, ticksLeft, chanClosed, sinkPc, e, fs, cfg,
                   rotFaults, flushFaults>>
    /\ UNCHANGED storeVars

\* Manager.Start: case <-time.After(startUpDelay)
MgrDelayElapsed ==
    /\ mgrPc = "delay"
    /\ now' = now + startUpDelay
    /\ mgrPc' = "loop"
    /\ UNCHANGED <<ctxDone, mainPc, ticksLeft, samplers, queue, chanClosed,
                   dropWarnings, sent, sinkPc, e, fs, cfg, rotFaults, flushFaults>>
    /\ UNCHANGED storeVars

\* Manager.Start: case <-m.ticker.C
MgrTick(r) ==
    /\ mgrPc = "loop"
    /\ ticksLeft > 0
    /\ ticksLeft' = ticksLeft - 1
    /\ now' = now + SamplingInterval
    /\ collectOnce(r, now + SamplingInterval)
    /\ UNCHANGED <<ctxDone, mainPc, mgrPc, chanClosed, sinkPc, e, fs, cfg,
                   rotFaults, flushFaults>>
    /\ UNCHANGED storeVars

\* Manager.Start: case <-ctx.Done(), in the startup delay or in the loop
MgrStop ==
    /\ mgrPc \in {"delay", "loop"}
    /\ ctxDone
    /\ mgrPc' = "stopped"
    /\ UNCHANGED <<ctxDone, mainPc, now, ticksLeft, samplers, queue, chanClosed,
                   dropWarnings, sent, sinkPc, e, fs, cfg, rotFaults, flushFaults>>
    /\ UNCHANGED storeVars

\* a runCollect that closes the channel once the context is cancelled, without
\* waiting for collectorMgr.Start to return
MainCloseChanEarly ==
    /\ mainPc = "running"
    /\ ctxDone
    /\ chanClosed' = TRUE
    /\ mainPc' = "waiting"
    /\ UNCHANGED <<ctxDone, mgrPc, now, ticksLeft, samplers, queue,
                   dropWarnings, sent, sinkPc, e, fs, cfg, rotFaults, flushFaults>>
    /\ UNCHANGED storeVars

\* runCollect after collectorMgr.Start returned: close(metricsChan)
MainCloseChan ==
    /\ mainPc = "running"
    /\ mgrPc = "stopped"
    /\ chanClosed' = TRUE
    /\ mainPc' = "waiting"
    /\ UNCHANGED <<ctxDone, mgrPc, now, ticksLeft, samplers, queue,
                   dropWarnings, sent, sinkPc, e, fs, cfg, rotFaults, flushFaults>>
    /\ UNCHANGED storeVars

SinkStep(w, pc) ==
    /\ e' = w.x
    /\ fs' = w.fs
    /\ rotFaults' = w.rot
    /\ flushFaults' = w.fl
    /\ sinkPc' = pc
    /\ UNCHANGED <<ctxDone, mgrPc, now, ticksLeft, samplers, chanClosed,
                   dropWarnings, sent, cfg>>
    /\ UNCHANGED storeVars

Here == World(e, fs, rotFaults, flushFaults)

\* a Start that returns on cancellation without its final flush
SinkCtxDoneNoFlush(inject) ==
    /\ sinkPc = "run"
    /\ ctxDone
    /\ SinkStep(Here, "returned")
    /\ UNCHANGED <<mainPc, queue>>

\* CSVExporter.Start: case <-ctx.Done(): return e.flush()
SinkCtxDone(inject) ==
    /\ sinkPc = "run"
    /\ ctxDone
    /\ SinkStep(flush(Here, inject), "returned")
    /\ UNCHANGED <<mainPc, queue>>

\* a receive after which Start returns when the write or the flush has failed
SinkReceiveUntilError(step, inject) ==
    LET w == receive(Here, Head(queue), step, inject, cfg.BufferSize)
    IN  /\ sinkPc = "run"
        /\ queue # <<>>
        /\ queue' = Tail(queue)
        /\ SinkStep(w, IF w.err \/ w.x.bufErr THEN "returned" ELSE "run")
        /\ UNCHANGED mainPc

\* CSVExporter.Start: case snapshot, ok := <-e.metricsChan, ok
SinkReceive(step, inject) ==
    /\ sinkPc = "run"
    /\ queue # <<>>
    /\ queue' = Tail(queue)
    /\ SinkStep(receive(Here, Head(queue), step, inject, cfg.BufferSize), "run")
    /\ UNCHANGED mainPc

\* CSVExporter.Start: the channel is closed and empty: return e.flush()
SinkChanClosed(inject) ==
    /\ sinkPc = "run"
    /\ queue = <<>>
    /\ chanClosed
    /\ SinkStep(flush(Here, inject), "returned")
    /\ UNCHANGED <<mainPc, queue>>

\* CSVExporter.Start: case <-e.flushTicker.C
SinkFlushTick(inject) ==
    /\ sinkPc = "run"
    /\ SinkStep(flushTick(Here, inject), "run")
    /\ UNCHANGED <<mainPc, queue>>

\* runCollect after wg.Wait(): the deferred csvExporter.Close()
MainClose(inject) ==
    /\ mainPc = "waiting"
    /\ sinkPc = "returned"
    /\ mainPc' = "done"
    /\ SinkStep(Close(Here, inject), "returned")
    /\ UNCHANGED queue

RotateSteps == {"none", "flush", "close", "open"}

Sink ==
    \/ \E i \in BOOLEAN : SinkCtxDone(i)
    \/ \E st \in RotateSteps, i \in BOOLEAN : SinkReceive(st, i)
    \/ \E i \in BOOLEAN : SinkChanClosed(i)
    \/ \E i \in BOOLEAN : SinkFlushTick(i)

Main ==
    \/ Cancel
    \/ MainCloseChan
    \/ \E i \in BOOLEAN : MainClose(i)

Manager(readings) ==
    \/ \E r \in readings : MgrBaseline(r)
    \/ MgrDelayElapsed
    \/ \E r \in readings : MgrTick(r)
    \/ MgrStop

(***************************************************************************)
(* Spec: a run on a machine with steady devices and a healthy disk, long   *)
(* enough to fill the channel.                                              *)
(***************************************************************************)
BufferSize == 2
BaseFull == DefaultMaxOutputFileSize + 1
BaseNearlyFull == DefaultMaxOutputFileSize - 30

Init ==
    \E full \in BOOLEAN :
        InitRun([BufferSize |-> BufferSize, Timezone |-> "UTC"],
                IF full THEN <<ForeignLine>> ELSE <<>>,
                IF full THEN BaseFull ELSE 0,
                {}, MaxTicks, 0, 0)

Next == Main \/ Manager(SteadyReadings) \/ Sink

Spec == Init /\ [][Next]_vars

(***************************************************************************)
(* SpecSink: short runs with a pre-existing output file (appended to) and  *)
(* rotated files of earlier runs, on a disk that may fail.                 *)
(***************************************************************************)
BaseFiles ==
    {[lines |-> <<>>, size |-> 0],
     [lines |-> <<ForeignLine>>, size |-> BaseNearlyFull],
     [lines |-> <<ForeignLine>>, size |-> BaseFull]}

InitSink ==
    \E base \in BaseFiles, rotated \in SUBSET (1 .. MaxPreExisting) :
        InitRun([BufferSize |-> BufferSize, Timezone |-> "UTC"],
                base.lines, base.size, rotated,
                MaxSinkTicks, MaxRotFaults, MaxFlushFaults)

NextSink == Main \/ Manager(SteadyReadings) \/ Sink

SpecSink == InitSink /\ [][NextSink]_vars

(***************************************************************************)
(* SpecSinkFair: short runs on a disk that may fail, under a scheduler     *)
(* that lets the exporter goroutine take a snapshot that waits in the      *)
(* channel: select picks among its ready cases at random, so the receive   *)
(* is not passed over forever.                                             *)
(***************************************************************************)
MaxFairTicks == 2

SinkReceives == \E st \in RotateSteps, i \in BOOLEAN : SinkReceive(st, i)

InitSinkFair ==
    \E base \in BaseFiles :
        InitRun([BufferSize |-> BufferSize, Timezone |-> "UTC"],
                base.lines, base.size, {},
                MaxFairTicks, MaxRotFaults, MaxFlushFaults)

SpecSinkFair == InitSinkFair /\ [][NextSink]_vars /\ WF_vars(SinkReceives)

(***************************************************************************)
(* SpecShutdown: the runs of SpecSinkFair under a scheduler that lets      *)
(* every goroutine run: the manager loop, the exporter loop (select picks  *)
(* at random among its ready cases), and runCollect after Start returned.  *)
(***************************************************************************)
MainCloses == \E i \in BOOLEAN : MainClose(i)

SpecShutdown ==
    /\ InitSinkFair
    /\ [][NextSink]_vars
    /\ WF_vars(Manager(SteadyReadings))
    /\ WF_vars(Sink)
    /\ WF_vars(MainCloseChan)
    /\ WF_vars(MainCloses)

(***************************************************************************)
(* SpecCols: short runs on a machine whose disks come and go and whose     *)
(* iowait may be unsupported, in either time zone, on a healthy disk.      *)
(***************************************************************************)
InitCols ==
    \E tz \in {"UTC", "America/New_York"}, base \in {b \in BaseFiles : b.size > 0} :
        InitRun([BufferSize |-> BufferSize, Timezone |-> tz],
                base.lines, base.size, {}, MaxColsTicks, 0, 0)

NextCols == Main \/ Manager(VaryingReadings) \/ Sink

SpecCols == InitCols /\ [][NextCols]_vars

(***************************************************************************)
(* SpecFaults: short runs in which, in any pass, the counter read of at    *)
(* most one of the four collectors fails.                                  *)
(***************************************************************************)
MaxFaultTicks == 2

CpuFails == [err |-> TRUE, util |-> 0, wait |-> 0]
MemFails == [err |-> TRUE, util |-> 0]
DiskFails == [err |-> TRUE, devs |-> {}, stats |-> <<>>]
NetFails == [err |-> TRUE, ifs |-> {}, stats |-> <<>>]

Failures(r) == {x \in {"cpu", "mem", "disk", "net"} : r[x].err}

FaultyReadings ==
    {r \in [cpu : {OkCpu(2500), CpuFails}, mem : {OkMem, MemFails},
            disk : {OkDisk({"sda"}), DiskFails}, net : {OkNet({"eth0"}), NetFails}] :
        Cardinality(Failures(r)) <= 1}

InitFaults ==
    \E base \in {b \in BaseFiles : b.size > 0} :
        InitRun([BufferSize |-> BufferSize, Timezone |-> "UTC"],
                base.lines, base.size, {}, MaxFaultTicks, 0, 0)

NextFaults == Main \/ Manager(FaultyReadings) \/ Sink

SpecFaults == InitFaults /\ [][NextFaults]_vars

(***************************************************************************)
(* SpecRaw: short runs in which every pass reads raw counters.  A raw pass *)
(* is what gopsutil returns to the four collectors, together with the      *)
(* counters each collector kept from its previous pass (prev); the         *)
(* collectors filter the devices and run the delta engine on the pair.     *)
(* The platform and the device filters are fixed for a run and kept in     *)
(* cfg.  Counters may stand still or go backwards between two passes.      *)
(***************************************************************************)
MaxRawTicks == 1

Platforms == {"linux", "windows", "darwin"}

DiskFilters ==
    {[include |-> <<>>, exclude |-> <<>>],
     [include |-> <<"/dev/sdb">>, exclude |-> <<>>],
     [include |-> <<"sda">>, exclude |-> <<"/dev/sda">>]}

\* cpu.TimesStat, disk.IOCountersStat, net.IOCountersStat, mem.VirtualMemoryStat
Times(user, idle, iowait) ==
    [User |-> user, System |-> 20, Idle |-> idle, Iowait |-> iowait]
DiskCounters(reads, ioTime) ==
    [ReadCount |-> reads, WriteCount |-> 5, ReadTime |-> 50, WriteTime |-> 20,
     IoTime |-> ioTime]
NetCounters(bytesSent) == [BytesSent |-> bytesSent, BytesRecv |-> 600]
Memory(used, total) == [err |-> FALSE, Used |-> used, Total |-> total]

\* a pass on a machine with two disks, a loopback and one other interface
SteadyPass ==
    [cpu |-> [err |-> FALSE, prev |-> Times(100, 1000, 9), times |-> Times(130, 1040, 12)],
     mem |-> Memory(8000, 16000),
     disk |-> [err |-> FALSE,
               prev |-> [d \in Devices |-> DiskCounters(0, 1000)],
               counters |-> [d \in Devices |-> DiskCounters(10, 1500)]],
     net |-> [err |-> FALSE,
              prev |-> [i \in {"lo", "eth0"} |-> NetCounters(500)],
              counters |-> [i \in {"lo", "eth0"} |-> NetCounters(4000)]]]

\* the passes of a run: one resource at a time departs from the steady pass
RawPasses ==
    {[SteadyPass EXCEPT !.cpu.times = Times(user, idle, iowait)] :
        user \in {100, 130}, idle \in {1000, 1040}, iowait \in {0, 5, 9, 12}}
    \cup {[SteadyPass EXCEPT !.cpu.prev = Times(100, 1000, 0),
                              !.cpu.times = Times(130, 1040, iowait)] : iowait \in {0, 5}}
    \cup {[SteadyPass EXCEPT !.cpu.err = TRUE], [SteadyPass EXCEPT !.mem.err = TRUE],
          [SteadyPass EXCEPT !.disk.err = TRUE], [SteadyPass EXCEPT !.net.err = TRUE]}
    \cup {[SteadyPass EXCEPT !.mem = Memory(used, total)] :
            used \in {0, 16000}, total \in {0, 16000}}
    \cup {[SteadyPass EXCEPT !.disk.counters = [d \in D |-> DiskCounters(10, ioTime)]] :
            D \in {{"sda"}, Devices}, ioTime \in {0, 500, 1000}}
    \cup {[SteadyPass EXCEPT !.net.counters = [i \in I |-> NetCounters(bytesSent)]] :
            I \in {{"lo"}, {"lo", "eth0"}}, bytesSent \in {100, 500}}

\* CPUCollector.Collect, lines 267-281: the statistics of the pass against prevStats
CpuReading(goos, raw, t) ==
    IF raw.err THEN CpuFails
    ELSE LET prevStats == getCPUTimeStats(goos, raw.prev, t - SamplingInterval)
             currentStats == getCPUTimeStats(goos, raw.times, t)
         IN  [err |-> FALSE,
              util |-> CalculateCPUUtilization(prevStats, currentStats),
              wait |-> CalculateCPUIOWait(prevStats, currentStats)]

\* MemoryCollector.Collect
MemReading(vmStat) ==
    IF vmStat.err \/ vmStat.Total = 0 THEN MemFails
    ELSE [err |-> FALSE, util |-> (vmStat.Used * 100000) \div vmStat.Total]

\* DiskCollector.Collect, the loop body: filter, currentStats, the three metrics
DiskReading(goos, includeDevices, excludeDevices, raw, t) ==
    IF raw.err THEN DiskFails
    ELSE LET devs == {d \in DOMAIN raw.counters :
                         DiskShouldMonitor(d, includeDevices, excludeDevices)}
             Stats(counter, at) ==
                 DiskIOStats(counter.ReadCount, counter.WriteCount, counter.ReadTime,
                             counter.WriteTime, getIOTime(goos, counter), at)
             prevStats(d) == Stats(raw.prev[d], t - SamplingInterval)
             currentStats(d) == Stats(raw.counters[d], t)
         IN  [err |-> FALSE, devs |-> devs,
              stats |-> [d \in devs |->
                  [Utilization |-> CalculateDiskUtilization(prevStats(d), currentStats(d)),
                   Await |-> CalculateDiskAwait(prevStats(d), currentStats(d)),
                   IOPS |-> CalculateDiskIOPS(prevStats(d), currentStats(d))]]]

\* NetworkCollector.Collect, the loop body: loopback, filter, bandwidth
NetReading(includeInterfaces, excludeInterfaces, raw, t) ==
    IF raw.err THEN NetFails
    ELSE LET ifs == {i \in DOMAIN raw.counters :
                        /\ ~isLoopback(i)
                        /\ NetShouldMonitor(i, includeInterfaces, excludeInterfaces)}
             Stats(counter, at) == NetworkIOStats(counter.BytesSent, counter.BytesRecv, at)
         IN  [err |-> FALSE, ifs |-> ifs,
              stats |-> [i \in ifs |->
                  [Bandwidth |-> CalculateNetworkBandwidth(
                                     Stats(raw.prev[i], t - SamplingInterval),
                                     Stats(raw.counters[i], t))]]]

\* what the collectors of this run make of raw pass raw, read one interval after now
Reading(raw) ==
    LET t == now + SamplingInterval
    IN  [cpu |-> CpuReading(cfg.GOOS, raw.cpu, t),
         mem |-> MemReading(raw.mem),
         disk |-> DiskReading(cfg.GOOS, normalizeDeviceList(cfg.IncludeDisks),
                              normalizeDeviceList(cfg.ExcludeDisks), raw.disk, t),
         net |-> NetReading(cfg.IncludeNetworks, cfg.ExcludeNetworks, raw.net, t)]

RawReadings == {Reading(raw) : raw \in RawPasses}

InitRaw ==
    \E goos \in Platforms, f \in DiskFilters :
        InitRun([BufferSize |-> BufferSize, Timezone |-> "UTC", GOOS |-> goos,
                 IncludeDisks |-> f.include, ExcludeDisks |-> f.exclude,
                 IncludeNetworks |-> <<>>, ExcludeNetworks |-> <<>>],
                <<ForeignLine>>, BaseNearlyFull, {}, MaxRawTicks, 0, 0)

NextRaw == Main \/ Manager(RawReadings) \/ Sink

SpecRaw == InitRaw /\ [][NextRaw]_vars

(***************************************************************************)
(* SpecPass: Manager.collectOnce step by step.  A pass is named by its     *)
(* instant k.  calls[<<k, "collectOnce">>] holds the locals of the call:   *)
(* the snapshot under construction, the holder of mu ("" when free) and    *)
(* the counter of wg; calls[<<k, c>>] is the goroutine the pass started    *)
(* for collector c, with the result of its Collect.                        *)
(***************************************************************************)
MaxPassTicks == 1

Collectors == {"CPU", "Memory", "Disk", "Network"}

PassReadings ==
    [cpu : {OkCpu(2500)}, mem : {OkMem}, disk : {OkDisk({"sda"}), DiskFails},
     net : {OkNet({"eth0"})}]

\* snapshot := &metrics.Snapshot{Timestamp: time.Now(), Disks: ..., Networks: ...}
NewSnapshot(t) ==
    [Timestamp |-> t, CPU |-> 0, CPUWait |-> 0, Memory |-> 0,
     Disks |-> <<>>, Networks |-> <<>>]

\* c.Collect() of collector c on collectors s with reading r
Collect(c, s, r) ==
    CASE c = "CPU" -> CPUCollect(s, r.cpu)
      [] c = "Memory" -> [err |-> MemoryCollect(r.mem).err,
                          util |-> MemoryCollect(r.mem).util, s |-> s]
      [] c = "Disk" -> DiskCollect(s, r.disk)
      [] c = "Network" -> NetworkCollect(s, r.net)

\* the goroutine of collector c has something to put into the snapshot
HasResult(c, res) ==
    IF c \in {"Disk", "Network"} THEN ~res.err /\ ~res.nil ELSE ~res.err

\* the assignments of the goroutine of collector c between mu.Lock and mu.Unlock
Assign(c, snapshot, res) ==
    CASE c = "CPU" -> [snapshot EXCEPT !.CPU = res.util, !.CPUWait = res.wait]
      [] c = "Memory" -> [snapshot EXCEPT !.Memory = res.util]
      [] c = "Disk" -> [snapshot EXCEPT !.Disks = res.stats]
      [] c = "Network" -> [snapshot EXCEPT !.Networks = res.stats]

Locals(k) == calls[<<k, "collectOnce">>]
Passes == {g[1] : g \in DOMAIN calls}
Goroutines == {g \in DOMAIN calls : g[2] \in Collectors}

PassVars ==
    <<ctxDone, mainPc, chanClosed, sinkPc, e, fs, cfg, rotFaults, flushFaults,
      files, columnData, uploads>>

\* a collectOnce that does not wait for its goroutines
WaitNever(k) == TRUE

\* wg.Wait() of pass k returns
Wait(k) == Locals(k).wg = 0

\* collectOnce up to wg.Wait(): the snapshot, wg.Add(4), the four go statements
PassBegin ==
    /\ \/ mgrPc = "baseline"
       \/ mgrPc = "loop" /\ ticksLeft > 0
    /\ LET k == IF mgrPc = "baseline" THEN now ELSE now + SamplingInterval
       IN  /\ now' = k
           /\ calls' = [g \in {<<k, c>> : c \in Collectors} |->
                            [pc |-> "start", res |-> <<>>]]
                       @@ (<<k, "collectOnce">> :>
                              [pc |-> "wait", snapshot |-> NewSnapshot(k), mu |-> "",
                               wg |-> 4, caller |-> mgrPc])
                       @@ calls
    /\ mgrPc' = "collectOnce"
    /\ ticksLeft' = IF mgrPc = "baseline" THEN ticksLeft ELSE ticksLeft - 1
    /\ UNCHANGED <<samplers, queue, dropWarnings, sent>>
    /\ UNCHANGED PassVars

\* the goroutine g enters c.Collect()
CollectCall(g) ==
    /\ calls[g].pc = "start"
    /\ calls' = [calls EXCEPT ![g].pc = "collecting"]
    /\ UNCHANGED <<mgrPc, now, ticksLeft, samplers, queue, dropWarnings, sent>>
    /\ UNCHANGED PassVars

\* c.Collect() returns to the goroutine g, having read r
CollectReturn(g, r) ==
    /\ calls[g].pc = "collecting"
    /\ LET res == Collect(g[2], samplers, r)
       IN  /\ samplers' = res.s
           /\ calls' = [calls EXCEPT ![g].pc = "collected", ![g].res = res]
    /\ UNCHANGED <<mgrPc, now, ticksLeft, queue, dropWarnings, sent>>
    /\ UNCHANGED PassVars

\* if err != nil { logger.Warn } (and, for disks and networks, a nil map); wg.Done()
GoSkip(g) ==
    /\ calls[g].pc = "collected"
    /\ ~HasResult(g[2], calls[g].res)
    /\ calls' = [calls EXCEPT ![g].pc = "done",
                              ![<<g[1], "collectOnce">>].wg = @ - 1]
    /\ UNCHANGED <<mgrPc, now, ticksLeft, samplers, queue, dropWarnings, sent>>
    /\ UNCHANGED PassVars

\* a goroutine that goes on to its assignments without taking mu
GoWithoutLock(g) ==
    /\ calls[g].pc = "collected"
    /\ HasResult(g[2], calls[g].res)
    /\ calls' = [calls EXCEPT ![g].pc = "locked"]
    /\ UNCHANGED <<mgrPc, now, ticksLeft, samplers, queue, dropWarnings, sent>>
    /\ UNCHANGED PassVars

\* mu.Lock() in the goroutine g
GoLock(g) ==
    /\ calls[g].pc = "collected"
    /\ HasResult(g[2], calls[g].res)
    /\ Locals(g[1]).mu = ""
    /\ calls' = [calls EXCEPT ![g].pc = "locked",
                              ![<<g[1], "collectOnce">>].mu = g[2]]
    /\ UNCHANGED <<mgrPc, now, ticksLeft, samplers, queue, dropWarnings, sent>>
    /\ UNCHANGED PassVars

\* snapshot.X = ...; mu.Unlock(); wg.Done() in the goroutine g
GoStore(g) ==
    /\ calls[g].pc = "locked"
    /\ calls' = [calls EXCEPT
                    ![g].pc = "done",
                    ![<<g[1], "collectOnce">>] =
                        [@ EXCEPT !.snapshot = Assign(g[2], @, calls[g].res),
                                  !.mu = "", !.wg = @ - 1]]
    /\ UNCHANGED <<mgrPc, now, ticksLeft, samplers, queue, dropWarnings, sent>>
    /\ UNCHANGED PassVars

\* collectOnce from wg.Wait() on: the test for empty maps under mu, the send
PassEnd(k) ==
    /\ mgrPc = "collectOnce"
    /\ Locals(k).pc = "wait"
    /\ Wait(k)
    /\ Locals(k).mu = ""
    /\ LET snapshot == Locals(k).snapshot
           disksEmpty == DOMAIN snapshot.Disks = {}
           netsEmpty == DOMAIN snapshot.Networks = {}
           send == TrySend(queue, snapshot)
       IN  IF disksEmpty \/ netsEmpty
           THEN UNCHANGED <<queue, sent, dropWarnings>>
           ELSE /\ queue' = send.q
                /\ sent' = IF send.ok THEN Append(sent, snapshot) ELSE sent
                /\ dropWarnings' = IF send.ok THEN dropWarnings ELSE dropWarnings + 1
    /\ calls' = [calls EXCEPT ![<<k, "collectOnce">>].pc = "returned"]
    /\ mgrPc' = IF Locals(k).caller = "baseline" THEN "delay" ELSE "loop"
    /\ UNCHANGED <<now, ticksLeft, samplers>>
    /\ UNCHANGED PassVars

Pass ==
    \/ PassBegin
    \/ \E g \in Goroutines : CollectCall(g)
    \/ \E g \in Goroutines, r \in PassReadings : CollectReturn(g, r)
    \/ \E g \in Goroutines : GoSkip(g)
    \/ \E g \in Goroutines : GoLock(g)
    \/ \E g \in Goroutines : GoStore(g)
    \/ \E k \in Passes : PassEnd(k)

InitPass ==
    InitRun([BufferSize |-> BufferSize, Timezone |-> "UTC"],
            <<ForeignLine>>, BaseNearlyFull, {}, MaxPassTicks, 0, 0)

NextPass == Main \/ Pass \/ MgrDelayElapsed \/ MgrStop \/ Sink

SpecPass == InitPass /\ [][NextPass]_vars

(***************************************************************************)
(* Vocabulary of the properties.                                           *)
(***************************************************************************)
IsDataRow(l) == ~l.hdr /\ l.cells # <<>>
DataRows(lines) == SelectSeq(lines, IsDataRow)

\* the data rows of this run in file p: on disk, and still in the buffer
RowsOnDisk(p) == DataRows(fs[p])
RowsAccepted(p) == DataRows(fs[p] \o (IF e.file = p THEN e.buf ELSE <<>>))

\* the data row of snapshot s is on disk in some file
Written(s) ==
    \E p \in DOMAIN fs : \E k \in 1 .. Len(fs[p]) :
        /\ IsDataRow(fs[p][k])
        /\ fs[p][k].cells[1] = FormatTimestamp(e.location, s.Timestamp)

\* the snapshots the exporter has taken from the channel
Consumed == SubSeq(sent, 1, Len(sent) - Len(queue))

\* a tick of the manager loop
IsTick == mgrPc = "loop" /\ ticksLeft' = ticksLeft - 1

(***************************************************************************)
(* C1: the metrics channel never holds more than 10 snapshots and never    *)
(* blocks the tick loop: a tick is possible whatever the channel holds and *)
(* ends back in the loop; a tick that finds 10 snapshots queued leaves the *)
(* channel as it was and logs one drop warning; a tick that finds room     *)
(* appends its snapshot and logs none.                                     *)
(***************************************************************************)
C1_NonBlockingBoundedQueue ==
    /\ [](Len(queue) <= QueueCap)
    /\ []((mgrPc = "loop" /\ ticksLeft > 0) => ENABLED (\E r \in SteadyReadings : MgrTick(r)))
    /\ [][IsTick =>
            /\ mgrPc' = "loop"
            /\ IF Len(queue) = QueueCap
               THEN /\ queue' = queue
                    /\ sent' = sent
                    /\ dropWarnings' = dropWarnings + 1
               ELSE /\ Len(queue') = Len(queue) + 1
                    /\ SubSeq(queue', 1, Len(queue)) = queue
                    /\ dropWarnings' = dropWarnings]_vars

C1_Witness == Len(queue) = QueueCap /\ dropWarnings > 0

(***************************************************************************)
(* C2: when CSVExporter.Start has returned, the channel is empty and the   *)
(* row of every snapshot the channel accepted is in a record file.         *)
(***************************************************************************)
C2_SinkDrainsBeforeExit ==
    sinkPc = "returned" =>
        /\ queue = <<>>
        /\ \A k \in 1 .. Len(sent) : Written(sent[k])

\* the rows accepted in this run, file after file in rotation order
RECURSIVE RowsUpTo(_)
RowsUpTo(p) ==
    IF p < 0 THEN <<>>
    ELSE RowsUpTo(p - 1) \o (IF p \in DOMAIN fs THEN RowsAccepted(p) ELSE <<>>)

LastPath == CHOOSE m \in DOMAIN fs : \A q \in DOMAIN fs : q <= m
AllRows == RowsUpTo(LastPath)

\* the rows are those of the consumed snapshots, one each, in channel order
RowsInChannelOrder ==
    /\ Len(AllRows) = Len(Consumed)
    /\ \A k \in 1 .. Len(AllRows) :
          AllRows[k].cells[1] = FormatTimestamp(e.location, Consumed[k].Timestamp)

\* the Timestamp column never decreases, within a file and from a file to
\* the next rotated file
TimestampsOrdered ==
    \A i, j \in 1 .. Len(AllRows) :
        i < j => AllRows[i].cells[1].v <= AllRows[j].cells[1].v

\* the instants of the enqueued snapshots never decrease
TicksOrdered ==
    \A i, j \in 1 .. Len(sent) : i < j => sent[i].Timestamp <= sent[j].Timestamp

(***************************************************************************)
(* C3: the rows of the record files are exactly the consumed snapshots in  *)
(* the order they were enqueued, and, tick instants being non-decreasing,  *)
(* the Timestamp column is non-decreasing within each file and across      *)
(* successive rotated files.                                               *)
(***************************************************************************)
C3_RowsInEnqueueOrder ==
    /\ RowsInChannelOrder
    /\ TicksOrdered => TimestampsOrdered

\* the lines of file p as a reader finds them once the buffer is flushed
LinesOf(f, x, p) == f[p] \o (IF x.file = p THEN x.buf ELSE <<>>)
Lines(p) == LinesOf(fs, e, p)

\* the row of snapshot s, whatever its columns
IsRowOf(l, s) ==
    IsDataRow(l) /\ l.cells[1] = FormatTimestamp(e.location, s.Timestamp)

(***************************************************************************)
(* C4: no step changes a file other than the one the exporter holds, and   *)
(* that one only grows; a step that creates a file creates <base>_<n><ext> *)
(* for the first n above the rotation index whose path did not exist, and  *)
(* makes it the exporter's file and rotation index.                        *)
(***************************************************************************)
C4_RotationNeverOverwrites ==
    [][/\ \A p \in DOMAIN fs :
             /\ p \in DOMAIN fs'
             /\ p # e.file => fs'[p] = fs[p]
             /\ p = e.file =>
                  /\ Len(fs'[p]) >= Len(fs[p])
                  /\ SubSeq(fs'[p], 1, Len(fs[p])) = fs[p]
       /\ DOMAIN fs' # DOMAIN fs =>
             \E n \in DOMAIN fs' :
                /\ DOMAIN fs' = DOMAIN fs \cup {n}
                /\ n \notin DOMAIN fs
                /\ n > e.fileIndex
                /\ \A m \in (e.fileIndex + 1) .. (n - 1) : m \in DOMAIN fs
                /\ e'.file = n
                /\ e'.fileIndex = n]_vars

\* a rotation went past the rotated files of earlier runs, which are intact
C4_Witness ==
    /\ e.file = MaxPreExisting + 1
    /\ \A p \in 1 .. MaxPreExisting : p \in DOMAIN fs /\ fs[p] = <<ForeignLine>>

(***************************************************************************)
(* C5: no row is in two places; and in a step that rotates, everything     *)
(* buffered for the old file reaches it before it is closed, the old file  *)
(* receives nothing else, and the new file holds the row of the snapshot   *)
(* that triggered the rotation and no other row.                           *)
(***************************************************************************)
C5_RotationKeepsRowsWhole ==
    /\ [](\A i, j \in 1 .. Len(AllRows) : i # j => AllRows[i].cells[1] # AllRows[j].cells[1])
    /\ [][e'.file # e.file =>
            /\ queue # <<>>
            /\ Len(fs'[e.file]) >= Len(fs[e.file]) + Len(e.buf)
            /\ SubSeq(fs'[e.file], 1, Len(fs[e.file]) + Len(e.buf)) = fs[e.file] \o e.buf
            /\ DataRows(fs'[e.file]) = DataRows(fs[e.file] \o e.buf)
            /\ \A k \in 1 .. Len(fs'[e.file]) : ~IsRowOf(fs'[e.file][k], Head(queue))
            /\ Len(DataRows(LinesOf(fs', e', e'.file))) = 1
            /\ IsRowOf(DataRows(LinesOf(fs', e', e'.file))[1], Head(queue))]_vars

\* a rotation happened while rows were still buffered for the old file
C5_Witness ==
    /\ e.file # 0
    /\ Len(RowsOnDisk(0)) >= 1
    /\ Len(RowsAccepted(e.file)) >= 1

(***************************************************************************)
(* C6: when only rotation attempts have failed, every snapshot the         *)
(* exporter took from the channel has its row in a record file once the    *)
(* exporter is closed.                                                     *)
(***************************************************************************)
C6_FailedRotationLosesNoRow ==
    (mainPc = "done" /\ flushFaults = MaxFlushFaults) =>
        \A k \in 1 .. Len(Consumed) : Written(Consumed[k])

\* without any fault nothing is lost
NoFaultNoLoss ==
    (mainPc = "done" /\ flushFaults = MaxFlushFaults /\ rotFaults = MaxRotFaults) =>
        \A k \in 1 .. Len(Consumed) : Written(Consumed[k])

\* the header line that governs line k of a file: the last one before it
HeaderBefore(lines, k) ==
    LET H == {j \in 1 .. (k - 1) : lines[j].hdr}
    IN  lines[CHOOSE j \in H : \A i \in H : i <= j]
HasHeaderBefore(lines, k) == \E j \in 1 .. (k - 1) : lines[j].hdr

\* the snapshot a data row was built from
SnapshotOf(l) == CHOOSE s \in {sent[k] : k \in 1 .. Len(sent)} : IsRowOf(l, s)

\* the device or interface a column belongs to, and whether the snapshot has it
ColumnAbsent(col, s) ==
    \/ \E d \in Devices \ DOMAIN s.Disks :
          \E n \in 1 .. 3 : col = DiskColumns(d)[n]
    \/ \E i \in Interfaces \ DOMAIN s.Networks : col = NetColumns(i)[1]

\* the cell header column col announces for snapshot s
CellFor(col, s) ==
    IF col = "Timestamp" THEN FormatTimestamp(e.location, s.Timestamp)
    ELSE IF col = "CPU Utilization (%)" THEN Fmt2(s.CPU, 10)
    ELSE IF col = "CPU IO Wait (%)"
         THEN (IF s.CPUWait < 0 THEN naString ELSE Fmt2(s.CPUWait, 10))
    ELSE IF col = "Memory Utilization (%)" THEN Fmt2(s.Memory, 10)
    ELSE IF ColumnAbsent(col, s) THEN naString
    ELSE IF \E d \in Devices : col = DiskColumns(d)[1]
         THEN Fmt2(s.Disks[CHOOSE d \in Devices : col = DiskColumns(d)[1]].Utilization, 10)
    ELSE IF \E d \in Devices : col = DiskColumns(d)[2]
         THEN Fmt2(s.Disks[CHOOSE d \in Devices : col = DiskColumns(d)[2]].Await, 10)
    ELSE IF \E d \in Devices : col = DiskColumns(d)[3]
         THEN Fmt2(s.Disks[CHOOSE d \in Devices : col = DiskColumns(d)[3]].IOPS, 10)
    ELSE Fmt2(s.Networks[CHOOSE i \in Interfaces : col = NetColumns(i)[1]].Bandwidth, 10000)

(***************************************************************************)
(* C7: in every record file every data row follows a header, has as many   *)
(* cells as that header has columns, and its cell k is the value of the    *)
(* header's column k in the row's snapshot.                                *)
(***************************************************************************)
C7_RowsMatchHeader ==
    \A p \in DOMAIN fs : \A k \in 1 .. Len(Lines(p)) :
        IsDataRow(Lines(p)[k]) =>
            /\ HasHeaderBefore(Lines(p), k)
            /\ LET row == Lines(p)[k].cells
                   cols == HeaderBefore(Lines(p), k).cols
                   s == SnapshotOf(Lines(p)[k])
               IN  /\ Len(row) = Len(cols)
                   /\ \A c \in 1 .. Len(row) : row[c] = CellFor(cols[c], s)

\* as long as the exporter has not rotated, rows do match their header
C7_HoldsBeforeRotation == e.file = 0 => C7_RowsMatchHeader

(***************************************************************************)
(* C8: in every row of every record file the CPU-wait cell of a snapshot   *)
(* whose CPU wait is negative is N/A, and so is every cell under a header  *)
(* column of a disk or interface the row's snapshot does not have.         *)
(***************************************************************************)
C8_UnavailableRendersNA ==
    \A p \in DOMAIN fs : \A k \in 1 .. Len(Lines(p)) :
        IsDataRow(Lines(p)[k]) =>
            LET row == Lines(p)[k].cells
                cols == HeaderBefore(Lines(p), k).cols
                s == SnapshotOf(Lines(p)[k])
            IN  /\ s.CPUWait < 0 => row[3] = naString
                /\ HasHeaderBefore(Lines(p), k)
                /\ \A c \in 1 .. Min(Len(row), Len(cols)) :
                      ColumnAbsent(cols[c], s) => row[c] = naString

\* a row on disk whose snapshot had no iowait and lacked a disk of the header
C8_Witness ==
    \E p \in DOMAIN fs : \E k \in 1 .. Len(fs[p]) :
        /\ IsDataRow(fs[p][k])
        /\ HasHeaderBefore(fs[p], k)
        /\ SnapshotOf(fs[p][k]).CPUWait < 0
        /\ fs[p][k].cells[3] = naString
        /\ \E c \in 1 .. Min(Len(fs[p][k].cells), Len(HeaderBefore(fs[p], k).cols)) :
              /\ ColumnAbsent(HeaderBefore(fs[p], k).cols[c], SnapshotOf(fs[p][k]))
              /\ fs[p][k].cells[c] = naString

(***************************************************************************)
(* internal/server: the CSV data service.  An error is its message, a      *)
(* sequence of words; nil is the empty sequence.  A file on disk is        *)
(*   [exists, size (bytes), openable, runs]                                *)
(* where runs is a sequence of [n |-> count, line |-> line, step |-> s]: n *)
(* consecutive lines of the kind the exporter writes, equal but for the    *)
(* timestamp, which advances by s seconds from one line to the next.       *)
(***************************************************************************)
MaxFileSize == 209715200
MaxFiles == 20
MaxRowsPerFile == 5000000

nil == <<>>
ErrMaxFiles ==
    <<"maximum", "number", "of", "files", "reached", "(20),",
      "please", "delete", "some", "files", "first">>
ErrMaxLoadedDuring ==
    <<"maximum", "number", "of", "loaded", "files", "reached", "(20)",
      "during", "processing">>
ErrMaxLoaded == <<"maximum", "number", "of", "loaded", "files", "reached", "(20)">>
ErrNotFound == <<"file", "not", "found:">>
ErrStat == <<"failed", "to", "stat", "file:">>
ErrTooLarge == <<"file", "too", "large", "(max", "200", "MB)">>
ErrOpen == <<"failed", "to", "open", "file:">>
ErrHeader == <<"failed", "to", "read", "CSV", "header:">>
ErrColumns ==
    <<"CSV", "must", "have", "at", "least", "timestamp", "and", "one", "data", "column">>
ErrLine == <<"error", "reading", "CSV", "line">>
ErrTooManyRows == <<"file", "has", "too", "many", "rows", "(max", "5000000)">>
ErrNoRows == <<"CSV", "file", "contains", "no", "valid", "data", "rows">>

\* strings.Contains on messages, word by word
Contains(msg, phrase) ==
    \E i \in 0 .. (Len(msg) - Len(phrase)) : SubSeq(msg, i + 1, i + Len(phrase)) = phrase

\* lines of a record file of a machine without disks and interfaces
StoreHeader == HeaderLine(HeaderRow(<<>>, <<>>))
StoreRow(t) == RowLine(<<TsCell(t), NumCell(5013), naString, NumCell(7000)>>)
BadTimeRow == RowLine(<<naString, NumCell(5013), naString, NumCell(7000)>>)
ShortRow(t) == RowLine(<<TsCell(t), NumCell(5013), naString>>)
Run(n, line) == [n |-> n, line |-> line, step |-> 0]
Ramp(n, line, step) == [n |-> n, line |-> line, step |-> step]
OnDisk(size, openable, runs) ==
    [exists |-> TRUE, size |-> size, openable |-> openable, runs |-> runs]

\* the files of the upload directory of SpecStore
StoredFile(path) ==
    CASE path = "good.csv" ->
            OnDisk(200, TRUE, <<Run(1, StoreHeader), Run(1, StoreRow(31)),
                                Run(1, BadTimeRow), Run(1, StoreRow(61))>>)
      [] path = "big.csv" -> OnDisk(MaxFileSize + 1, TRUE, <<Run(1, StoreHeader)>>)
      [] path = "locked.csv" -> OnDisk(200, FALSE, <<Run(1, StoreHeader)>>)
      [] path = "empty.csv" -> OnDisk(0, TRUE, <<>>)
      [] path = "onecol.csv" ->
            OnDisk(40, TRUE, <<Run(1, HeaderLine(<<"Timestamp">>)),
                               Run(1, RowLine(<<TsCell(31)>>))>>)
      [] path = "ragged.csv" ->
            OnDisk(100, TRUE, <<Run(1, StoreHeader), Run(1, ShortRow(31))>>)
      [] path = "norows.csv" ->
            OnDisk(100, TRUE, <<Run(1, StoreHeader), Run(2, BadTimeRow)>>)
      [] path = "long.csv" ->
            OnDisk(MaxFileSize, TRUE,
                   <<Run(1, StoreHeader), Run(MaxRowsPerFile + 1, StoreRow(31))>>)
      [] OTHER -> [exists |-> FALSE, size |-> 0, openable |-> FALSE, runs |-> <<>>]

Paths ==
    {"good.csv", "missing.csv", "big.csv", "locked.csv", "empty.csv", "onecol.csv",
     "ragged.csv", "norows.csv", "long.csv"}
UploadDir == [path \in Paths \ {"missing.csv"} |-> StoredFile(path)]

\* what os.Stat and os.Open find at path
DiskFile(path) ==
    IF path \in DOMAIN uploads THEN uploads[path]
    ELSE [exists |-> FALSE, size |-> 0, openable |-> FALSE, runs |-> <<>>]

\* a record of the csv reader: the fields of a line
Fields(line) == IF line.hdr THEN line.cols ELSE line.cells

\* parseTimestamp: the zero time for a field no layout parses, else the instant
\* the field reads as UTC
parseTimestamp(field) ==
    IF field.k = "ts" THEN [zero |-> FALSE, unix |-> field.v] ELSE [zero |-> TRUE, unix |-> 0]

\* a conversion that stores 0 for a field that is not a number
ParseValueOrZero(field) ==
    IF field.k = "num" THEN [nan |-> FALSE, v |-> field.v] ELSE [nan |-> FALSE, v |-> 0]

\* strconv.ParseFloat of a trimmed field; "N/A", "" and anything unparseable are NaN
ParseValue(field) ==
    IF field.k = "num" THEN [nan |-> FALSE, v |-> field.v] ELSE [nan |-> TRUE, v |-> 0]

Copies(n, x) == [i \in 1 .. n |-> x]

\* n copies of seq, end to end
Repeat(n, seq) == [i \in 1 .. n * Len(seq) |-> seq[((i - 1) % Len(seq)) + 1]]

\* what one record appends to valueCols[c]: the values under every header
\* position named c, left to right
RowValues(header, record, c) ==
    LET at == SelectSeq([i \in 1 .. Len(header) |-> i], LAMBDA i : i > 1 /\ header[i] = c)
    IN  [j \in 1 .. Len(at) |-> ParseValue(record[at[j]])]

CSVFile(id, name, path, columns, rowCount, minTime, maxTime, isLoaded) ==
    [ID |-> id, Name |-> name, Path |-> path, Columns |-> columns, RowCount |-> rowCount,
     MinTime |-> minTime, MaxTime |-> maxTime, IsLoaded |-> isLoaded]
NoMeta == CSVFile(0, "", "", <<>>, 0, 0, 0, FALSE)
NoCols == [Timestamps |-> <<>>, Values |-> <<>>]
Failed(err) == [err |-> err, cols |-> NoCols, meta |-> NoMeta]

\* the read loop of processCSVFile from run k on; acc is
\* [rowCount, timestamps, values, minTime, maxTime, err]
RECURSIVE ReadRows(_, _, _, _)
ReadRows(runs, k, header, acc) ==
    IF k > Len(runs) \/ acc.err # nil THEN acc
    ELSE LET n == runs[k].n
             record == Fields(runs[k].line)
             t == parseTimestamp(record[1])
             last == t.unix + (n - 1) * runs[k].step
         IN  IF Len(record) # Len(header)
             THEN [acc EXCEPT !.err = ErrLine]
             ELSE IF acc.rowCount >= MaxRowsPerFile \/ (~t.zero /\ acc.rowCount + n > MaxRowsPerFile)
             THEN [acc EXCEPT !.err = ErrTooManyRows]
             ELSE IF t.zero
             THEN ReadRows(runs, k + 1, header, acc)
             ELSE ReadRows(runs, k + 1, header,
                    [rowCount |-> acc.rowCount + n,
                     timestamps |-> acc.timestamps \o
                                   [i \in 1 .. n |-> t.unix + (i - 1) * runs[k].step],
                     values |-> [c \in DOMAIN acc.values |->
                                    acc.values[c] \o Repeat(n, RowValues(header, record, c))],
                     minTime |-> IF acc.rowCount = 0 \/ t.unix < acc.minTime
                                 THEN t.unix ELSE acc.minTime,
                     maxTime |-> IF acc.rowCount = 0 \/ last > acc.maxTime
                                 THEN last ELSE acc.maxTime,
                     err |-> nil])

\* processCSVFile: the parsed columns and the metadata of the file at path, or
\* the error that stopped the parse
processCSVFile(id, name, path) ==
    LET d == DiskFile(path)
        header == Fields(d.runs[1].line)
        r == ReadRows(d.runs, 2, header,
                      [rowCount |-> 0, timestamps |-> <<>>,
                       values |-> [c \in {header[i] : i \in 2 .. Len(header)} |-> <<>>],
                       minTime |-> 0, maxTime |-> 0, err |-> nil])
    IN  IF ~d.exists THEN Failed(ErrStat)
        ELSE IF d.size > MaxFileSize THEN Failed(ErrTooLarge)
        ELSE IF ~d.openable THEN Failed(ErrOpen)
        ELSE IF d.runs = <<>> THEN Failed(ErrHeader)
        ELSE IF Len(header) < 2 THEN Failed(ErrColumns)
        ELSE IF r.err # nil THEN Failed(r.err)
        ELSE IF r.rowCount = 0 THEN Failed(ErrNoRows)
        ELSE [err |-> nil,
              cols |-> [Timestamps |-> r.timestamps, Values |-> r.values],
              meta |-> CSVFile(id, name, path, header, r.rowCount,
                               r.minTime, r.maxTime, FALSE)]

(***************************************************************************)
(* CSVDataService calls.  Every HTTP request runs in its own goroutine; a  *)
(* call is split where it releases s.mu, so each action is one critical    *)
(* section together with the lock-free code that follows it.  A slot of    *)
(* calls is                                                                *)
(*   [pc: "ready" | "count" | "commit", op: the call, id, meta, cols: its  *)
(*    locals, err: what the call returned]                                 *)
(* and a ready slot shows the goroutine's last call.                       *)
(***************************************************************************)
PreLoaded == 19         \* files ingested before the concurrent requests start
Callers == {"g1", "g2"}
OpIds == {PreLoaded + 1, PreLoaded + 2}
RegisterPaths == {"good.csv", "missing.csv"}

LoadedCount(f) == Cardinality({id \in DOMAIN f : f[id].IsLoaded})

Ready(op, err) ==
    [pc |-> "ready", op |-> op, id |-> 0, meta |-> NoMeta, cols |-> NoCols, err |-> err]

\* the call of goroutine g returns err
Return(g, op, id, err) ==
    calls' = [calls EXCEPT ![g] = Ready(op, err)]

\* an update that stores the columns and leaves the metadata as it is
StoreColumnsOnly(id, meta, cols) ==
    /\ files' = files
    /\ columnData' = (id :> cols) @@ columnData

\* s.files[id] = meta; s.columnData[id] = cols
Store(id, meta, cols) ==
    /\ files' = (id :> meta) @@ files
    /\ columnData' = (id :> cols) @@ columnData

\* LoadFile, lines 94-108: the entry check under RLock, then the parse
LoadFileCheck(g, id, path) ==
    /\ calls[g].pc = "ready"
    /\ IF Cardinality(DOMAIN files) >= MaxFiles
       THEN Return(g, "LoadFile", id, ErrMaxFiles)
       ELSE LET r == processCSVFile(id, path, path)
            IN  IF r.err # nil
                THEN Return(g, "LoadFile", id, r.err)
                ELSE calls' = [calls EXCEPT ![g] =
                        [pc |-> "commit", op |-> "LoadFile", id |-> id,
                         meta |-> [r.meta EXCEPT !.IsLoaded = TRUE], cols |-> r.cols,
                         err |-> nil]]
    /\ UNCHANGED <<files, columnData, pipeVars, uploads>>

\* a LoadFile that stores before it re-checks
LoadFileCommitEager(g) ==
    /\ calls[g].pc = "commit" /\ calls[g].op = "LoadFile"
    /\ Store(calls[g].id, calls[g].meta, calls[g].cols)
    /\ Return(g, "LoadFile", calls[g].id,
              IF LoadedCount(files) >= MaxFiles THEN ErrMaxLoadedDuring ELSE nil)
    /\ UNCHANGED <<pipeVars, uploads>>

\* LoadFile, lines 111-130: the re-check and the update under Lock
LoadFileCommit(g) ==
    /\ calls[g].pc = "commit" /\ calls[g].op = "LoadFile"
    /\ IF LoadedCount(files) >= MaxFiles
       THEN /\ Return(g, "LoadFile", calls[g].id, ErrMaxLoadedDuring)
            /\ UNCHANGED <<files, columnData>>
       ELSE /\ Store(calls[g].id, calls[g].meta, calls[g].cols)
            /\ Return(g, "LoadFile", calls[g].id, nil)
    /\ UNCHANGED <<pipeVars, uploads>>

\* a RegisterFile that replaces the entry of a known id
RegisterFileAlways(g, id, path) ==
    /\ calls[g].pc = "ready"
    /\ files' = (id :> CSVFile(id, path, path, <<>>, 0, 0, 0, FALSE)) @@ files
    /\ Return(g, "RegisterFile", id, nil)
    /\ UNCHANGED <<columnData, pipeVars, uploads>>

\* RegisterFile, lines 135-147, with the path given as display name
RegisterFile(g, id, path) ==
    /\ calls[g].pc = "ready"
    /\ files' = IF id \in DOMAIN files THEN files
                ELSE (id :> CSVFile(id, path, path, <<>>, 0, 0, 0, FALSE)) @@ files
    /\ Return(g, "RegisterFile", id, nil)
    /\ UNCHANGED <<columnData, pipeVars, uploads>>

\* LoadFileContent, lines 152-162: the lookup under RLock
LoadFileContentLookup(g, id) ==
    /\ calls[g].pc = "ready"
    /\ IF id \notin DOMAIN files
       THEN Return(g, "LoadFileContent", id, ErrNotFound)
       ELSE IF files[id].IsLoaded
       THEN Return(g, "LoadFileContent", id, nil)
       ELSE calls' = [calls EXCEPT ![g] =
                [pc |-> "count", op |-> "LoadFileContent", id |-> id,
                 meta |-> files[id], cols |-> NoCols, err |-> nil]]
    /\ UNCHANGED <<files, columnData, pipeVars, uploads>>

\* LoadFileContent, lines 165-183: the count under RLock, then the parse
LoadFileContentCount(g) ==
    /\ calls[g].pc = "count"
    /\ IF LoadedCount(files) >= MaxFiles
       THEN Return(g, "LoadFileContent", calls[g].id, ErrMaxLoaded)
       ELSE LET r == processCSVFile(calls[g].id, calls[g].meta.Name, calls[g].meta.Path)
            IN  IF r.err # nil
                THEN Return(g, "LoadFileContent", calls[g].id, r.err)
                ELSE calls' = [calls EXCEPT ![g] =
                        [pc |-> "commit", op |-> "LoadFileContent", id |-> calls[g].id,
                         meta |-> [r.meta EXCEPT !.IsLoaded = TRUE], cols |-> r.cols,
                         err |-> nil]]
    /\ UNCHANGED <<files, columnData, pipeVars, uploads>>

\* LoadFileContent, lines 185-191: the update under Lock
LoadFileContentCommit(g) ==
    /\ calls[g].pc = "commit" /\ calls[g].op = "LoadFileContent"
    /\ Store(calls[g].id, calls[g].meta, calls[g].cols)
    /\ Return(g, "LoadFileContent", calls[g].id, nil)
    /\ UNCHANGED <<pipeVars, uploads>>

Without(f, id) == [k \in DOMAIN f \ {id} |-> f[k]]

\* a DeleteFile that forgets the column data
DeleteFileMetaOnly(g, id) ==
    /\ calls[g].pc = "ready"
    /\ IF id \notin DOMAIN files
       THEN /\ Return(g, "DeleteFile", id, ErrNotFound)
            /\ UNCHANGED <<files, columnData>>
       ELSE /\ files' = Without(files, id)
            /\ UNCHANGED columnData
            /\ Return(g, "DeleteFile", id, nil)
    /\ UNCHANGED <<pipeVars, uploads>>

DeleteFile(g, id) ==
    /\ calls[g].pc = "ready"
    /\ IF id \notin DOMAIN files
       THEN /\ Return(g, "DeleteFile", id, ErrNotFound)
            /\ UNCHANGED <<files, columnData>>
       ELSE /\ files' = Without(files, id)
            /\ columnData' = Without(columnData, id)
            /\ Return(g, "DeleteFile", id, nil)
    /\ UNCHANGED <<pipeVars, uploads>>

StatusNoContent == 204

\* filepath.Join(s.uploadDir, fileID+".csv"): the file an upload wrote for id
UploadPath(id) == IF id = PreLoaded + 1 THEN "good.csv" ELSE "missing.csv"

\* the slot of a goroutine whose handler has written its response
Responded(op, status) ==
    [pc |-> "ready", op |-> op, id |-> 0, meta |-> NoMeta, cols |-> NoCols,
     err |-> nil, status |-> status]

\* Server.handleDeleteFile: DeleteFile, whose error is only logged, then
\* os.Remove, whose error is only logged, then 204
handleDeleteFile(g, id) ==
    /\ calls[g].pc = "ready"
    /\ files' = Without(files, id)
    /\ columnData' = Without(columnData, id)
    /\ uploads' = Without(uploads, UploadPath(id))
    /\ calls' = [calls EXCEPT ![g] = Responded("handleDeleteFile", StatusNoContent)]
    /\ UNCHANGED pipeVars

DeleteAll(g) ==
    /\ calls[g].pc = "ready"
    /\ files' = <<>>
    /\ columnData' = <<>>
    /\ Return(g, "DeleteAll", 0, nil)
    /\ UNCHANGED <<pipeVars, uploads>>

(***************************************************************************)
(* GetColumnData.  A *time.Time argument is <<>> for nil and <<t>> for a   *)
(* pointer to the instant t; index i of a Go slice is element i + 1 here.  *)
(* A value is [nan, v] with v in the unit of the cells, and the mean of a  *)
(* bucket is truncated to that unit.                                       *)
(***************************************************************************)
maxPoints == 2000

ErrDataNotFound == <<"data", "not", "found", "for", "file:">>
ErrColumnNotFound == <<"column", "not", "found:">>

\* a search that takes both bounds as ">= target"
RECURSIVE SearchAtOrAfter(_, _, _, _, _)
SearchAtOrAfter(ts, target, strict, i, j) ==
    IF i >= j THEN i
    ELSE LET h == (i + j) \div 2
         IN  IF ts[h + 1] >= target
             THEN SearchAtOrAfter(ts, target, strict, i, h)
             ELSE SearchAtOrAfter(ts, target, strict, h + 1, j)

\* sort.Search on [i, j): the smallest index at which the predicate holds,
\* found by bisection; the predicate is Timestamps[h] > target when strict
\* and Timestamps[h] >= target otherwise
RECURSIVE Search(_, _, _, _, _)
Search(ts, target, strict, i, j) ==
    IF i >= j THEN i
    ELSE LET h == (i + j) \div 2
             hit == IF strict THEN ts[h + 1] > target ELSE ts[h + 1] >= target
         IN  IF hit THEN Search(ts, target, strict, i, h)
                    ELSE Search(ts, target, strict, h + 1, j)

DataPoint(ts, v) == [Timestamp |-> ts, Value |-> v]

\* lines 393-405: every point of [startIdx, endIdx) whose value is not NaN
AllPoints(colsData, values, startIdx, endIdx) ==
    LET at == SelectSeq([k \in 1 .. (endIdx - startIdx) |-> startIdx + k - 1],
                        LAMBDA i : ~values[i + 1].nan)
    IN  [k \in 1 .. Len(at) |-> DataPoint(colsData.Timestamps[at[k] + 1], values[at[k] + 1].v)]

\* sum and count of the values of [pStart, pEnd) that are not NaN
RECURSIVE Pool(_, _, _)
Pool(values, pStart, pEnd) ==
    IF pStart >= pEnd THEN [sum |-> 0, count |-> 0]
    ELSE LET rest == Pool(values, pStart + 1, pEnd)
         IN  IF values[pStart + 1].nan THEN rest
             ELSE [sum |-> rest.sum + values[pStart + 1].v, count |-> rest.count + 1]

\* a bucket that gives up when its first value is NaN
BucketFirstOnly(colsData, values, startIdx, endIdx, i) ==
    LET totalPoints == endIdx - startIdx
        pStart == startIdx + (i * totalPoints) \div maxPoints
    IN  IF values[pStart + 1].nan THEN <<>>
        ELSE <<DataPoint(colsData.Timestamps[pStart + 1], values[pStart + 1].v)>>

(***************************************************************************)
(* float64 as the bucket arithmetic uses it.  A float64 is a mantissa of   *)
(* 53 bits, kept in three limbs of 18 bits m[1] + m[2]*2^18 + m[3]*2^36,   *)
(* over 2^f; division and multiplication round the exact result to the     *)
(* nearest such number, ties to the even mantissa, and int() drops the     *)
(* fraction.  The operands are those of lines 409-416: a dividend below    *)
(* 2^23 that is not below the divisor, a divisor and a factor below 2^12.  *)
(***************************************************************************)
RECURSIVE Exponent(_, _)
Exponent(a, b) == IF a < 2 * b THEN 0 ELSE 1 + Exponent(a, 2 * b)

RECURSIVE BitLen(_)
BitLen(n) == IF n = 0 THEN 0 ELSE 1 + BitLen(n \div 2)

\* limbs after the carries of an addition to the lowest limb
Carried(m) ==
    LET c1 == m[1] \div 2^18
        c2 == (m[2] + c1) \div 2^18
    IN  <<m[1] % 2^18, (m[2] + c1) % 2^18, m[3] + c2>>

\* float64(a) / float64(b)
Float64Quo(a, b) ==
    LET f == 52 - Exponent(a, b)
        top == a * 2^(f - 36)
        r2 == top % b
        r1 == (r2 * 2^18) % b
        m0 == ((r1 * 2^18) \div b)
        r0 == (r1 * 2^18) % b
        up == 2 * r0 > b \/ (2 * r0 = b /\ m0 % 2 = 1)
    IN  [m |-> Carried(<<m0 + (IF up THEN 1 ELSE 0), (r2 * 2^18) \div b, top \div b>>),
         f |-> f]

\* int(float64(i) * x)
IntOfProduct(i, x) ==
    LET p0 == i * x.m[1]
        p1 == i * x.m[2] + p0 \div 2^18
        top == i * x.m[3] + p1 \div 2^18
        l0 == p0 % 2^18
        d == IF BitLen(top) > 17 THEN BitLen(top) - 17 ELSE 0
        low == l0 % 2^d
        up == d > 0 /\ (2 * low > 2^d \/ (2 * low = 2^d /\ (l0 \div 2^d) % 2 = 1))
        rounded == Carried(<<l0 - low + (IF up THEN 2^d ELSE 0), p1 % 2^18, top>>)
    IN  rounded[3] \div 2^(x.f - 36)

\* lines 409-421: the raw indices [pStart, pEnd) of bucket i
BucketBounds(startIdx, endIdx, i) ==
    LET totalPoints == endIdx - startIdx
        bucketSize == Float64Quo(totalPoints, maxPoints)
    IN  [pStart |-> startIdx + IntOfProduct(i, bucketSize),
         pEnd |-> Min(startIdx + IntOfProduct(i + 1, bucketSize), endIdx)]

\* bucket bounds from the exact product, without the rounding of float64
BucketBoundsExact(startIdx, endIdx, i) ==
    LET totalPoints == endIdx - startIdx
    IN  [pStart |-> startIdx + (i * totalPoints) \div maxPoints,
         pEnd |-> Min(startIdx + ((i + 1) * totalPoints) \div maxPoints, endIdx)]

\* lines 413-441: bucket i of the range, as the points it contributes
Bucket(colsData, values, startIdx, endIdx, i) ==
    LET b == BucketBounds(startIdx, endIdx, i)
        pool == Pool(values, b.pStart, b.pEnd)
    IN  IF b.pStart >= b.pEnd \/ pool.count = 0 THEN <<>>
        ELSE <<DataPoint(colsData.Timestamps[b.pStart + 1], pool.sum \div pool.count)>>

\* lines 408-444: average pooling into maxPoints buckets
Downsample(colsData, values, startIdx, endIdx) ==
    LET kept == SelectSeq([k \in 1 .. maxPoints |-> k - 1],
                          LAMBDA i : Bucket(colsData, values, startIdx, endIdx, i) # <<>>)
    IN  [k \in 1 .. Len(kept) |-> Bucket(colsData, values, startIdx, endIdx, kept[k])[1]]

\* the body of GetColumnData on the store's maps: [out, err]
ColumnPoints(id, columnName, timeFrom, timeTo) ==
    IF id \notin DOMAIN columnData THEN [out |-> <<>>, err |-> ErrDataNotFound]
    ELSE IF columnName \notin DOMAIN columnData[id].Values
    THEN [out |-> <<>>, err |-> ErrColumnNotFound]
    ELSE LET colsData == columnData[id]
             values == colsData.Values[columnName]
             n == Len(colsData.Timestamps)
             startIdx == IF timeFrom = <<>> THEN 0
                         ELSE Search(colsData.Timestamps, timeFrom[1], FALSE, 0, n)
             endIdx == IF timeTo = <<>> THEN n
                       ELSE Min(Search(colsData.Timestamps, timeTo[1], TRUE, 0, n), n)
         IN  IF startIdx >= endIdx THEN [out |-> <<>>, err |-> nil]
             ELSE IF endIdx - startIdx <= maxPoints
             THEN [out |-> AllPoints(colsData, values, startIdx, endIdx), err |-> nil]
             ELSE [out |-> Downsample(colsData, values, startIdx, endIdx), err |-> nil]

\* the slot of a goroutine that has returned from GetColumnData
Answer(args, r) ==
    [pc |-> "ready", op |-> "GetColumnData", id |-> args[1], meta |-> NoMeta,
     cols |-> NoCols, err |-> r.err, args |-> args, out |-> r.out]

GetColumnData(g, id, columnName, timeFrom, timeTo) ==
    /\ calls[g].pc = "ready"
    /\ calls' = [calls EXCEPT ![g] = Answer(<<id, columnName, timeFrom, timeTo>>,
                                            ColumnPoints(id, columnName, timeFrom, timeTo))]
    /\ UNCHANGED <<files, columnData, pipeVars, uploads>>

(***************************************************************************)
(* SpecStore: the visualisation server after PreLoaded uploads have been   *)
(* ingested one after another, serving concurrent requests.  No collection *)
(* runs in this process.                                                   *)
(***************************************************************************)
NoCollection ==
    /\ ctxDone = FALSE
    /\ mainPc = "absent"
    /\ mgrPc = "absent"
    /\ sinkPc = "absent"
    /\ now = 0
    /\ ticksLeft = 0
    /\ samplers = SamplersInit
    /\ queue = <<>>
    /\ chanClosed = FALSE
    /\ dropWarnings = 0
    /\ sent = <<>>
    /\ cfg = [BufferSize |-> BufferSize, Timezone |-> "UTC"]
    /\ e = NewCSVExporter(cfg, 0)
    /\ fs = (0 :> <<>>)
    /\ rotFaults = 0
    /\ flushFaults = 0

Ingested(id) == processCSVFile(id, "good.csv", "good.csv")

InitStore ==
    /\ NoCollection
    /\ uploads = UploadDir
    /\ files = [id \in 1 .. PreLoaded |-> [Ingested(id).meta EXCEPT !.IsLoaded = TRUE]]
    /\ columnData = [id \in 1 .. PreLoaded |-> Ingested(id).cols]
    /\ calls = [g \in Callers |-> Ready("", nil)]

NextStore ==
    \E g \in Callers :
        \/ \E id \in OpIds, path \in Paths : LoadFileCheck(g, id, path)
        \/ LoadFileCommit(g)
        \/ \E id \in OpIds, path \in RegisterPaths : RegisterFile(g, id, path)
        \/ \E id \in OpIds : LoadFileContentLookup(g, id)
        \/ LoadFileContentCount(g)
        \/ LoadFileContentCommit(g)
        \/ \E id \in OpIds : DeleteFile(g, id)
        \/ \E id \in OpIds : handleDeleteFile(g, id)
        \/ DeleteAll(g)

SpecStore == InitStore /\ [][NextStore]_vars

(***************************************************************************)
(* SpecIngest: one record file in the upload directory, drawn from every   *)
(* file of up to MaxGenRows lines under two headers and from files long    *)
(* enough to be downsampled.  Goroutine g1 ingests it as id 1 and          *)
(* goroutine g2 serves one GetColumnData request, before, while or after.  *)
(***************************************************************************)
MaxGenRows == 2
BigRows == 2500
FirstStamp == 31

TextCell == [k |-> "text", v |-> 0]
EmptyCell == [k |-> "", v |-> 0]
SampleRow(t) == RowLine(<<TsCell(t), NumCell(100 * t), naString, NumCell(7000)>>)
OddRow(t) == RowLine(<<TsCell(t), TextCell, EmptyCell, NumCell(t)>>)
DupHeader ==
    HeaderLine(<<"Timestamp", "CPU Utilization (%)", "CPU Utilization (%)",
                 "Memory Utilization (%)">>)
RowKinds ==
    {SampleRow(FirstStamp), SampleRow(FirstStamp + SamplingInterval),
     OddRow(FirstStamp + 2 * SamplingInterval), BadTimeRow, ShortRow(FirstStamp)}

FileOf(header, rows) ==
    OnDisk(100, TRUE, <<Run(1, header)>> \o [i \in 1 .. Len(rows) |-> Run(1, rows[i])])
GenFiles ==
    {FileOf(header, rows) :
        header \in {StoreHeader, DupHeader},
        rows \in UNION {[1 .. n -> RowKinds] : n \in 0 .. MaxGenRows}}
BigFiles ==
    {OnDisk(MaxFileSize, TRUE, <<Run(1, StoreHeader), Ramp(BigRows, SampleRow(FirstStamp), 1)>>),
     OnDisk(MaxFileSize, TRUE,
            <<Run(1, StoreHeader), Ramp(BigRows - 1000, SampleRow(FirstStamp), 1)>>
            \o [i \in 1 .. 10 |->
                  LET t == FirstStamp + BigRows - 1000 + i - 1
                  IN  Run(1, IF i % 2 = 1 THEN OddRow(t) ELSE SampleRow(t))]
            \o <<Ramp(600, OddRow(FirstStamp + BigRows - 990), 1),
                 Ramp(391, SampleRow(FirstStamp + BigRows - 390), 1)>>)}

QueryColumns == {"CPU Utilization (%)", "CPU IO Wait (%)", "Disk Util sda (%)"}
QueryTimes ==
    {<<>>} \cup
    {<<t>> : t \in {FirstStamp - 1, FirstStamp, FirstStamp + SamplingInterval,
                    FirstStamp + SamplingInterval + 1,
                    FirstStamp + maxPoints - 1, FirstStamp + maxPoints,
                    FirstStamp + maxPoints + 1}}

InitIngest ==
    /\ NoCollection
    /\ uploads \in {("data.csv" :> d) : d \in GenFiles \cup BigFiles}
    /\ files = <<>>
    /\ columnData = <<>>
    /\ calls = [g \in Callers |-> Ready("", nil)]

NextIngest ==
    \/ LoadFileCheck("g1", 1, "data.csv")
    \/ LoadFileCommit("g1")
    \/ \E columnName \in QueryColumns, timeFrom \in QueryTimes, timeTo \in QueryTimes :
          /\ calls["g2"].op = ""
          /\ GetColumnData("g2", 1, columnName, timeFrom, timeTo)

SpecIngest == InitIngest /\ [][NextIngest]_vars

(***************************************************************************)
(* SpecDelta: the delta engine applied once to a pair of raw statistics,   *)
(* as the tests of pkg/metrics do.  The pairs include a previous sample    *)
(* with the zero timestamp, equal and reversed timestamps, counters that   *)
(* stand still and counters that went backwards.                           *)
(***************************************************************************)
CPUSamples ==
    {CPUTimeStats(user, 20, idle, iowait, t) :
        user \in {100, 130}, idle \in {1000, 1010, 1040}, iowait \in {-1, 0, 5, 9},
        t \in {ZeroTime, 0, SamplingInterval}}

DiskSamples ==
    {DiskIOStats(reads, writes, readTime, 0, ioTime, t) :
        reads \in {0, 10}, writes \in {0, CounterMod - 10}, readTime \in {0, 50},
        ioTime \in {0, 1000, 1500, 2500}, t \in {ZeroTime, 0, startUpDelay, SamplingInterval}}

NetSamples ==
    {NetworkIOStats(bytesSent, bytesRecv, t) :
        bytesSent \in {0, 500, 4000}, bytesRecv \in {0, 600},
        t \in {ZeroTime, 0, startUpDelay, SamplingInterval}}

\* the slot of a goroutine that has called a function of the delta engine
Computed(op, prev, current, out) ==
    [pc |-> "ready", op |-> op, id |-> 0, meta |-> NoMeta, cols |-> NoCols,
     err |-> nil, args |-> <<prev, current>>, out |-> out]

\* goroutine g, which has made no call yet, calls op on (prev, current)
Calculate(g, op, prev, current, out) ==
    /\ calls' = [calls EXCEPT ![g] = Computed(op, prev, current, out)]
    /\ UNCHANGED <<files, columnData, pipeVars, uploads>>

InitDelta ==
    /\ NoCollection
    /\ uploads = <<>>
    /\ files = <<>>
    /\ columnData = <<>>
    /\ calls = [g \in {"g1"} |-> Ready("", nil)]

NextDelta ==
    \/ /\ calls["g1"].op = ""
       /\ \E p \in CPUSamples, c \in CPUSamples :
             Calculate("g1", "CalculateCPUUtilization", p, c, CalculateCPUUtilization(p, c))
    \/ /\ calls["g1"].op = ""
       /\ \E p \in CPUSamples, c \in CPUSamples :
             Calculate("g1", "CalculateCPUIOWait", p, c, CalculateCPUIOWait(p, c))
    \/ /\ calls["g1"].op = ""
       /\ \E p \in DiskSamples, c \in DiskSamples :
             Calculate("g1", "CalculateDiskUtilization", p, c, CalculateDiskUtilization(p, c))
    \/ /\ calls["g1"].op = ""
       /\ \E p \in DiskSamples, c \in DiskSamples :
             Calculate("g1", "CalculateDiskAwait", p, c, CalculateDiskAwait(p, c))
    \/ /\ calls["g1"].op = ""
       /\ \E p \in DiskSamples, c \in DiskSamples :
             Calculate("g1", "CalculateDiskIOPS", p, c, CalculateDiskIOPS(p, c))
    \/ /\ calls["g1"].op = ""
       /\ \E p \in NetSamples, c \in NetSamples :
             Calculate("g1", "CalculateNetworkBandwidth", p, c, CalculateNetworkBandwidth(p, c))

SpecDelta == InitDelta /\ [][NextDelta]_vars

(***************************************************************************)
(* SpecFilter: the device filter of the disk and of the network collector  *)
(* applied once to a name and a pair of lists, as the ShouldMonitor tests  *)
(* do.                                                                     *)
(***************************************************************************)
MaxListLen == 2
FilterNames == {"sda", "sdb", "eth0"}
FilterLists == UNION {[1 .. n -> FilterNames] : n \in 0 .. MaxListLen}

\* the slot of a goroutine that has asked a collector's shouldMonitor
Filtered(op, name, include, exclude, out) ==
    [pc |-> "ready", op |-> op, id |-> 0, meta |-> NoMeta, cols |-> NoCols,
     err |-> nil, args |-> <<name, include, exclude>>, out |-> out]

InitFilter ==
    /\ NoCollection
    /\ uploads = <<>>
    /\ files = <<>>
    /\ columnData = <<>>
    /\ calls = [g \in {"g1"} |-> Ready("", nil)]

NextFilter ==
    \/ /\ calls["g1"].op = ""
       /\ \E name \in FilterNames, include \in FilterLists, exclude \in FilterLists :
             calls' = [calls EXCEPT !["g1"] =
                          Filtered("DiskCollector.shouldMonitor", name, include, exclude,
                                   DiskShouldMonitor(name, include, exclude))]
       /\ UNCHANGED <<files, columnData, pipeVars, uploads>>
    \/ /\ calls["g1"].op = ""
       /\ \E name \in FilterNames, include \in FilterLists, exclude \in FilterLists :
             calls' = [calls EXCEPT !["g1"] =
                          Filtered("NetworkCollector.shouldMonitor", name, include, exclude,
                                   NetShouldMonitor(name, include, exclude))]
       /\ UNCHANGED <<files, columnData, pipeVars, uploads>>

SpecFilter == InitFilter /\ [][NextFilter]_vars

(***************************************************************************)
(* SpecStartup: runCollect from its first line.  The configuration comes   *)
(* from the flags; the output directory may be missing and the output file *)
(* may refuse to open.  No goroutine exists until both constructors have   *)
(* succeeded; e is <<>> until NewCSVExporter has returned an exporter.     *)
(***************************************************************************)
MaxStartupTicks == 1

ErrUnknownTimeZone == <<"unknown", "time", "zone">>
ErrBufferSize == <<"buffer", "size", "must", "be", "at", "least", "1">>
ErrOutputDir == <<"output", "directory", "does", "not", "exist">>
ErrOpenFile == <<"failed", "to", "open", "output", "file">>

\* a LoadLocation that takes every name for UTC
LoadLocationLenient(name) ==
    IF name = "America/New_York" THEN [loc |-> name, err |-> nil]
    ELSE [loc |-> "UTC", err |-> nil]

\* time.LoadLocation: "" and "UTC" are UTC, other names come from the zone database
LoadLocation(name) ==
    IF name \in {"", "UTC"} THEN [loc |-> "UTC", err |-> nil]
    ELSE IF name = "America/New_York" THEN [loc |-> name, err |-> nil]
    ELSE [loc |-> "UTC", err |-> ErrUnknownTimeZone]

\* Config.Validate: buffer size, time zone, output directory
Validate(c, dirExists) ==
    IF c.BufferSize < 1 THEN ErrBufferSize
    ELSE IF c.Timezone # "" /\ LoadLocation(c.Timezone).err # nil
         THEN <<"invalid", "timezone:">> \o LoadLocation(c.Timezone).err
    ELSE IF ~dirExists THEN ErrOutputDir
    ELSE nil

StartupConfigs ==
    [BufferSize : {0, BufferSize},
     Timezone : {"", "UTC", "America/New_York", "Mars/Olympus_Mons"}]

\* runCollect: buildConfig
MainBuildConfig(dirExists) ==
    /\ mainPc = "config"
    /\ mainPc' = IF Validate(cfg, dirExists) # nil THEN "failed" ELSE "create"
    /\ UNCHANGED <<ctxDone, mgrPc, now, ticksLeft, samplers, queue, chanClosed,
                   dropWarnings, sent, sinkPc, e, fs, cfg, rotFaults, flushFaults>>
    /\ UNCHANGED storeVars

\* runCollect: NewManager, NewCSVExporter, and on success the two goroutines
MainNewExporter(openFails) ==
    /\ mainPc = "create"
    /\ IF LoadLocation(cfg.Timezone).err # nil \/ openFails
       THEN /\ mainPc' = "failed"
            /\ UNCHANGED <<e, mgrPc, sinkPc>>
       ELSE /\ mainPc' = "running"
            /\ e' = [NewCSVExporter(cfg, 0) EXCEPT
                        !.location = LoadLocation(cfg.Timezone).loc]
            /\ mgrPc' = "baseline"
            /\ sinkPc' = "run"
    /\ UNCHANGED <<ctxDone, now, ticksLeft, samplers, queue, chanClosed,
                   dropWarnings, sent, fs, cfg, rotFaults, flushFaults>>
    /\ UNCHANGED storeVars

InitStartup ==
    /\ ctxDone = FALSE
    /\ mainPc = "config"
    /\ mgrPc = "absent"
    /\ sinkPc = "absent"
    /\ now = 0
    /\ ticksLeft = MaxStartupTicks
    /\ samplers = SamplersInit
    /\ queue = <<>>
    /\ chanClosed = FALSE
    /\ dropWarnings = 0
    /\ sent = <<>>
    /\ cfg \in StartupConfigs
    /\ e = <<>>
    /\ fs = (0 :> <<>>)
    /\ rotFaults = 0
    /\ flushFaults = 0
    /\ StoreIdle

NextStartup ==
    \/ \E dirExists \in BOOLEAN : MainBuildConfig(dirExists)
    \/ \E openFails \in BOOLEAN : MainNewExporter(openFails)
    \/ Main
    \/ Manager(SteadyReadings)
    \/ Sink

SpecStartup == InitStartup /\ [][NextStartup]_vars

(***************************************************************************)
(* SpecSampler: the three collectors that keep previous statistics, called *)
(* a few times on raw counters that may fail to be read and whose devices  *)
(* come and go.  Here samplers holds the collectors themselves (firstRun,  *)
(* prevStats), and the slot g1 of calls the last call: the collector       *)
(* before it, what the operating system returned, and the result.          *)
(***************************************************************************)
MaxCollects == 3

NewCPUCollector == [firstRun |-> TRUE, prevStats |-> CPUTimeStats(0, 0, 0, 0, ZeroTime)]
NewDiskCollector(includeDevices, excludeDevices) ==
    [prevStats |-> <<>>, includeDevices |-> normalizeDeviceList(includeDevices),
     excludeDevices |-> normalizeDeviceList(excludeDevices), firstRun |-> TRUE]
NewNetworkCollector(includeInterfaces, excludeInterfaces) ==
    [prevStats |-> <<>>, includeInterfaces |-> includeInterfaces,
     excludeInterfaces |-> excludeInterfaces, firstRun |-> TRUE]

\* prevStats[name] = currentStats for every name of current
Merge(prevStats, current) ==
    [x \in DOMAIN prevStats \cup DOMAIN current |->
        IF x \in DOMAIN current THEN current[x] ELSE prevStats[x]]

\* a collector that forgets the devices it does not see in the reading
StoreCurrent(prevStats, current) == current

\* the statements prevStats[name] = currentStats of one Collect
StorePrev(prevStats, current) == Merge(prevStats, current)

\* CPUCollector.Collect of collector c on platform goos; read is what cpu.Times returned
CPUCollectorCollect(c, goos, read, at) ==
    IF read.err
    THEN [c |-> c, utilization |-> 0, iowait |-> -1000, err |-> TRUE]
    ELSE LET currentStats == getCPUTimeStats(goos, read.times, at)
         IN  IF c.firstRun
             THEN [c |-> [c EXCEPT !.prevStats = currentStats, !.firstRun = FALSE],
                   utilization |-> 0, iowait |-> -1000, err |-> FALSE]
             ELSE [c |-> [c EXCEPT !.prevStats = currentStats],
                   utilization |-> CalculateCPUUtilization(c.prevStats, currentStats),
                   iowait |-> CalculateCPUIOWait(c.prevStats, currentStats),
                   err |-> FALSE]

\* the currentStats DiskCollector.Collect builds for the devices it monitors
DiskCurrent(d, goos, read, at) ==
    [x \in {y \in DOMAIN read.counters :
               DiskShouldMonitor(y, d.includeDevices, d.excludeDevices)} |->
        DiskIOStats(read.counters[x].ReadCount, read.counters[x].WriteCount,
                    read.counters[x].ReadTime, read.counters[x].WriteTime,
                    getIOTime(goos, read.counters[x]), at)]

\* DiskCollector.Collect; result is nil on the first run and on an error
DiskCollectorCollect(d, goos, read, at) ==
    IF read.err
    THEN [c |-> d, nil |-> TRUE, result |-> <<>>, err |-> TRUE]
    ELSE LET current == DiskCurrent(d, goos, read, at)
             known == DOMAIN current \cap DOMAIN d.prevStats
         IN  IF d.firstRun
             THEN [c |-> [d EXCEPT !.prevStats = StorePrev(@, current), !.firstRun = FALSE],
                   nil |-> TRUE, result |-> <<>>, err |-> FALSE]
             ELSE [c |-> [d EXCEPT !.prevStats = StorePrev(@, current)],
                   nil |-> FALSE,
                   result |-> [x \in known |->
                       [Utilization |-> CalculateDiskUtilization(d.prevStats[x], current[x]),
                        Await |-> CalculateDiskAwait(d.prevStats[x], current[x]),
                        IOPS |-> CalculateDiskIOPS(d.prevStats[x], current[x])]],
                   err |-> FALSE]

\* the currentStats NetworkCollector.Collect builds for the interfaces it monitors
NetCurrent(n, read, at) ==
    [x \in {y \in DOMAIN read.counters :
               /\ ~isLoopback(y)
               /\ NetShouldMonitor(y, n.includeInterfaces, n.excludeInterfaces)} |->
        NetworkIOStats(read.counters[x].BytesSent, read.counters[x].BytesRecv, at)]

\* NetworkCollector.Collect
NetworkCollectorCollect(n, read, at) ==
    IF read.err
    THEN [c |-> n, nil |-> TRUE, result |-> <<>>, err |-> TRUE]
    ELSE LET current == NetCurrent(n, read, at)
             known == DOMAIN current \cap DOMAIN n.prevStats
         IN  IF n.firstRun
             THEN [c |-> [n EXCEPT !.prevStats = StorePrev(@, current), !.firstRun = FALSE],
                   nil |-> TRUE, result |-> <<>>, err |-> FALSE]
             ELSE [c |-> [n EXCEPT !.prevStats = StorePrev(@, current)],
                   nil |-> FALSE,
                   result |-> [x \in known |->
                       [Bandwidth |-> CalculateNetworkBandwidth(n.prevStats[x], current[x])]],
                   err |-> FALSE]

\* what the operating system returns to one Collect
CPUReads ==
    {[err |-> TRUE, times |-> Times(0, 0, 0)]}
    \cup {[err |-> FALSE, times |-> Times(user, idle, 9)] :
            user \in {100, 130}, idle \in {1000, 1040}}
DiskReads ==
    {[err |-> TRUE, counters |-> <<>>]}
    \cup {[err |-> FALSE, counters |-> [x \in D |-> DiskCounters(reads, ioTime)]] :
            D \in {{"sda"}, Devices}, reads \in {10, 40}, ioTime \in {1000, 1500}}
NetReads ==
    {[err |-> TRUE, counters |-> <<>>]}
    \cup {[err |-> FALSE, counters |-> [x \in I |-> NetCounters(bytesSent)]] :
            I \in {{"lo", "eth0"}, {"lo", "eth0", "eth1"}}, bytesSent \in {500, 4000}}

\* the slot of the goroutine after a Collect of collector c (before the call) on read
Collected(op, c, read, out) ==
    [pc |-> "ready", op |-> op, id |-> 0, meta |-> NoMeta, cols |-> NoCols,
     err |-> nil, args |-> <<c, read>>, out |-> out]

\* one Collect of the collector kept in field f of samplers, SamplingInterval later
CollectStep(f, op, read, out) ==
    /\ ticksLeft > 0
    /\ ticksLeft' = ticksLeft - 1
    /\ now' = now + SamplingInterval
    /\ samplers' = [samplers EXCEPT ![f] = out.c]
    /\ calls' = [calls EXCEPT !["g1"] = Collected(op, samplers[f], read, out)]
    /\ UNCHANGED <<ctxDone, mainPc, mgrPc, queue, chanClosed, dropWarnings, sent, sinkPc,
                   e, fs, cfg, rotFaults, flushFaults, files, columnData, uploads>>

InitSampler ==
    /\ ctxDone = FALSE
    /\ mainPc = "absent"
    /\ mgrPc = "absent"
    /\ sinkPc = "absent"
    /\ now = 0
    /\ ticksLeft = MaxCollects
    /\ samplers = [cpu |-> NewCPUCollector, disk |-> NewDiskCollector(<<>>, <<>>),
                   net |-> NewNetworkCollector(<<>>, <<>>)]
    /\ queue = <<>>
    /\ chanClosed = FALSE
    /\ dropWarnings = 0
    /\ sent = <<>>
    /\ cfg \in {[BufferSize |-> BufferSize, Timezone |-> "UTC", GOOS |-> goos] :
                   goos \in {"linux", "windows"}}
    /\ e = NewCSVExporter(cfg, 0)
    /\ fs = (0 :> <<>>)
    /\ rotFaults = 0
    /\ flushFaults = 0
    /\ uploads = <<>>
    /\ files = <<>>
    /\ columnData = <<>>
    /\ calls = [g \in {"g1"} |-> Ready("", nil)]

NextSampler ==
    \/ \E read \in CPUReads :
          CollectStep("cpu", "CPUCollector.Collect", read,
                      CPUCollectorCollect(samplers.cpu, cfg.GOOS, read, now))
    \/ \E read \in DiskReads :
          CollectStep("disk", "DiskCollector.Collect", read,
                      DiskCollectorCollect(samplers.disk, cfg.GOOS, read, now))
    \/ \E read \in NetReads :
          CollectStep("net", "NetworkCollector.Collect", read,
                      NetworkCollectorCollect(samplers.net, read, now))

SpecSampler == InitSampler /\ [][NextSampler]_vars

\* goroutine g returns from a LoadFile or LoadFileContent with an error
FailedLoad(g) ==
    /\ calls'[g] # calls[g]
    /\ calls'[g].pc = "ready"
    /\ calls'[g].op \in {"LoadFile", "LoadFileContent"}
    /\ calls'[g].err # nil

StoreTypeOK ==
    /\ DOMAIN columnData \subseteq DOMAIN files
    /\ \A id \in DOMAIN files : files[id].IsLoaded <=> id \in DOMAIN columnData

(***************************************************************************)
(* C9: at most MaxFiles = 20 entries of the store are loaded, whatever the *)
(* interleaving of LoadFile, LoadFileContent, RegisterFile, DeleteFile and *)
(* DeleteAll calls.                                                        *)
(***************************************************************************)
C9_LoadedNeverExceedsCap == LoadedCount(files) <= MaxFiles

\* the update of LoadFile never takes the loaded count past the cap
C9_LoadFileKeepsCap ==
    [][\A g \in Callers :
          (calls[g].pc = "commit" /\ calls[g].op = "LoadFile"
           /\ calls'[g].pc = "ready" /\ LoadedCount(files) <= MaxFiles)
              => LoadedCount(files') <= MaxFiles]_vars

\* the failed call of g found the cap reached: every failure but a lookup
\* that did not find the id
CapFailure(g) ==
    /\ FailedLoad(g)
    /\ LoadedCount(files) >= MaxFiles
    /\ ~(calls'[g].op = "LoadFileContent" /\ calls[g].pc = "ready")

(***************************************************************************)
(* C10: a LoadFile or LoadFileContent that returns an error changes        *)
(* neither files nor columnData, so the loaded count is what it was; and   *)
(* when it failed on the cap its message is "maximum number of files       *)
(* reached ..." or "maximum number of loaded files reached ...".           *)
(***************************************************************************)
C10_FailedLoadLeavesStore ==
    [][\A g \in Callers :
          /\ FailedLoad(g) =>
                /\ UNCHANGED <<files, columnData>>
                /\ LoadedCount(files') = LoadedCount(files)
          /\ CapFailure(g) =>
                calls'[g].err \in {ErrMaxFiles, ErrMaxLoadedDuring, ErrMaxLoaded}]_vars

\* C10 as stated: the cap failure carries a "maximum number of files" message
C10_AsStated ==
    [][\A g \in Callers :
          /\ FailedLoad(g) =>
                /\ UNCHANGED <<files, columnData>>
                /\ LoadedCount(files') = LoadedCount(files)
          /\ CapFailure(g) =>
                Contains(calls'[g].err, <<"maximum", "number", "of", "files">>)]_vars

\* a LoadFileContent was refused at the cap and a LoadFile at its entry check,
\* and the store holds MaxFiles loaded files
C10_Witness ==
    /\ calls["g1"] = Ready("LoadFileContent", ErrMaxLoaded)
    /\ calls["g2"].pc = "ready" /\ calls["g2"].op = "LoadFile"
    /\ calls["g2"].err = ErrMaxFiles
    /\ LoadedCount(files) = MaxFiles

(***************************************************************************)
(* C11: the cap counts loaded entries only.  A LoadFile of a valid file    *)
(* that starts while fewer than MaxFiles = 20 entries are loaded passes    *)
(* its entry check, however many registered entries the store holds, and   *)
(* its update stores the file when fewer than 20 are loaded at that time.  *)
(***************************************************************************)
C11_CapCountsLoadedOnly ==
    [][\A g \in Callers :
          /\ \A id \in OpIds :
                (LoadFileCheck(g, id, "good.csv") /\ LoadedCount(files) < MaxFiles)
                    => calls'[g].pc = "commit"
          /\ (LoadFileCommit(g) /\ LoadedCount(files) < MaxFiles)
                    => (calls'[g].err = nil /\ calls[g].id \in DOMAIN columnData')]_vars

\* the same while every entry of the store is loaded
C11_HoldsWithoutRegistered ==
    [][\A g \in Callers :
          /\ \A id \in OpIds :
                (LoadFileCheck(g, id, "good.csv") /\ LoadedCount(files) < MaxFiles
                 /\ LoadedCount(files) = Cardinality(DOMAIN files))
                    => calls'[g].pc = "commit"
          /\ (LoadFileCommit(g) /\ LoadedCount(files) < MaxFiles)
                    => (calls'[g].err = nil /\ calls[g].id \in DOMAIN columnData')]_vars

\* goroutine g holds the answer of a GetColumnData that found file and column
Answered(g) == calls[g].op = "GetColumnData" /\ calls[g].err = nil

NonDecreasing(ts) == \A i \in 1 .. Len(ts) - 1 : ts[i] <= ts[i + 1]

\* row i of ts lies in the closed range [from, to]; <<>> is an omitted bound
InRange(ts, i, from, to) ==
    /\ from = <<>> \/ from[1] <= ts[i]
    /\ to = <<>> \/ ts[i] <= to[1]
RowsInRange(ts, from, to) == {i \in 1 .. Len(ts) : InRange(ts, i, from, to)}

(***************************************************************************)
(* C12: for a loaded file with non-decreasing timestamps and at most       *)
(* maxPoints = 2000 rows in [from, to], GetColumnData returns exactly the  *)
(* pairs (ts[i], v[i]) with from <= ts[i] <= to and v[i] not NaN, in index *)
(* order; an omitted bound does not restrict.  In SpecIngest a stored file *)
(* never changes, so columnData is what the answered call read.            *)
(***************************************************************************)
C12_QueryReturnsClosedRange ==
    \A g \in DOMAIN calls :
        Answered(g) =>
            LET a == calls[g].args
                ts == columnData[a[1]].Timestamps
                v == columnData[a[1]].Values[a[2]]
                at == SelectSeq([i \in 1 .. Len(ts) |-> i],
                                LAMBDA i : InRange(ts, i, a[3], a[4]) /\ ~v[i].nan)
            IN  (NonDecreasing(ts) /\ Cardinality(RowsInRange(ts, a[3], a[4])) <= maxPoints)
                    => calls[g].out = [k \in 1 .. Len(at) |-> DataPoint(ts[at[k]], v[at[k]].v)]

\* both bounds given and equal to stored timestamps, and both rows returned
C12_Witness ==
    /\ Answered("g2")
    /\ calls["g2"].args =
          <<1, "CPU Utilization (%)", <<FirstStamp>>, <<FirstStamp + SamplingInterval>>>>
    /\ columnData[1].Timestamps = <<FirstStamp, FirstStamp + SamplingInterval>>
    /\ calls["g2"].out =
          <<DataPoint(FirstStamp, 100 * FirstStamp),
            DataPoint(FirstStamp + SamplingInterval, 100 * (FirstStamp + SamplingInterval))>>

\* C12 without its precondition on the order of the timestamps
C12_AnyOrder ==
    \A g \in DOMAIN calls :
        Answered(g) =>
            LET a == calls[g].args
                ts == columnData[a[1]].Timestamps
                v == columnData[a[1]].Values[a[2]]
                at == SelectSeq([i \in 1 .. Len(ts) |-> i],
                                LAMBDA i : InRange(ts, i, a[3], a[4]) /\ ~v[i].nan)
            IN  Cardinality(RowsInRange(ts, a[3], a[4])) <= maxPoints
                    => calls[g].out = [k \in 1 .. Len(at) |-> DataPoint(ts[at[k]], v[at[k]].v)]

\* the rows of bucket i when the n rows from row lo on are cut into maxPoints
\* buckets of equal width
BucketRows(lo, n, i) ==
    (lo + (i * n) \div maxPoints) .. (lo + ((i + 1) * n) \div maxPoints - 1)

(***************************************************************************)
(* C13: when [from, to] holds more than maxPoints = 2000 rows of a file    *)
(* with non-decreasing timestamps, GetColumnData returns at most 2000      *)
(* points, one for each bucket that holds a value that is not NaN, hence   *)
(* exactly 2000 when no value of the range is NaN; when the range holds    *)
(* 2000 rows or fewer it returns one point for every value that is not NaN.*)
(***************************************************************************)
C13_DownsamplesAboveMaxPoints ==
    \A g \in DOMAIN calls :
        Answered(g) =>
            LET a == calls[g].args
                ts == columnData[a[1]].Timestamps
                v == columnData[a[1]].Values[a[2]]
                rows == RowsInRange(ts, a[3], a[4])
                n == Cardinality(rows)
                lo == CHOOSE j \in rows : \A k \in rows : j <= k
                full == {i \in 0 .. maxPoints - 1 :
                            \E j \in BucketRows(lo, n, i) : ~v[j].nan}
            IN  NonDecreasing(ts) =>
                    IF n > maxPoints
                    THEN /\ Len(calls[g].out) <= maxPoints
                         /\ Len(calls[g].out) = Cardinality(full)
                         /\ (\A j \in rows : ~v[j].nan) => Len(calls[g].out) = maxPoints
                    ELSE Len(calls[g].out) = Cardinality({j \in rows : ~v[j].nan})

\* the full range of a file of BigRows rows without NaN gave maxPoints points
C13_Witness ==
    /\ Answered("g2")
    /\ calls["g2"].args = <<1, "CPU Utilization (%)", <<>>, <<>>>>
    /\ Len(columnData[1].Timestamps) = BigRows
    /\ BigRows > maxPoints
    /\ \A j \in 1 .. BigRows : ~columnData[1].Values["CPU Utilization (%)"][j].nan
    /\ Len(calls["g2"].out) = maxPoints

\* a range of more than maxPoints rows with NaN stretches gave fewer points
C13_SparseWitness ==
    /\ Answered("g2")
    /\ Len(columnData[1].Timestamps) > BigRows
    /\ Len(calls["g2"].out) > 0
    /\ Len(calls["g2"].out) < maxPoints - 100
    /\ calls["g2"].args[3] = <<>> /\ calls["g2"].args[4] = <<>>

\* the lines of a file after its header, one by one
RECURSIVE LinesFrom(_, _)
LinesFrom(runs, k) ==
    IF k > Len(runs) THEN <<>>
    ELSE [i \in 1 .. runs[k].n |->
             LET cells == runs[k].line.cells
             IN  IF cells[1].k = "ts"
                 THEN [cells EXCEPT ![1] = TsCell(cells[1].v + (i - 1) * runs[k].step)]
                 ELSE cells]
         \o LinesFrom(runs, k + 1)

\* the source rows that carry a timestamp, in file order
TimedRows(d) == SelectSeq(LinesFrom(d.runs, 2), LAMBDA cells : cells[1].k = "ts")

\* the stored columns of id are parallel to its timestamps, row for row
Aligned(id) ==
    LET d == DiskFile(files[id].Path)
        header == Fields(d.runs[1].line)
        rows == TimedRows(d)
        ts == columnData[id].Timestamps
    IN  /\ Len(ts) = files[id].RowCount
        /\ Len(ts) = Len(rows)
        /\ \A i \in 1 .. Len(ts) : ts[i] = rows[i][1].v
        /\ \A c \in DOMAIN columnData[id].Values :
              /\ Len(columnData[id].Values[c]) = Len(ts)
              /\ \A i \in 1 .. Len(ts) :
                    \E p \in 2 .. Len(header) :
                        /\ header[p] = c
                        /\ columnData[id].Values[c][i] = ParseValue(rows[i][p])

HasRepeatedColumn(header) ==
    \E p, q \in 2 .. Len(header) : p # q /\ header[p] = header[q]

(***************************************************************************)
(* C14: after a successful LoadFile, whatever file was accepted, every     *)
(* column's value array is as long as the timestamp array, which is as     *)
(* long as RowCount, and value i of each column comes from the source row  *)
(* of timestamp i.                                                         *)
(***************************************************************************)
C14_ColumnsParallelToTimestamps == \A id \in DOMAIN columnData : Aligned(id)

\* the same for files whose header names every column once
C14_HoldsForDistinctColumns ==
    \A id \in DOMAIN columnData :
        ~HasRepeatedColumn(Fields(DiskFile(files[id].Path).runs[1].line)) => Aligned(id)

(***************************************************************************)
(* C15: for every loaded file, whatever file was accepted, the stored      *)
(* Timestamps array is non-decreasing.                                     *)
(***************************************************************************)
C15_StoredTimestampsSorted ==
    \A id \in DOMAIN columnData : NonDecreasing(columnData[id].Timestamps)

\* the stored order is the order of the rows in the file
C15_StoredInFileOrder ==
    \A id \in DOMAIN columnData :
        LET rows == TimedRows(DiskFile(files[id].Path))
        IN  columnData[id].Timestamps = [i \in 1 .. Len(rows) |-> rows[i][1].v]

\* every entry but that of id is what it was
OthersKept(id) ==
    /\ DOMAIN files' \ {id} = DOMAIN files \ {id}
    /\ DOMAIN columnData' \ {id} = DOMAIN columnData \ {id}
    /\ \A k \in DOMAIN files \ {id} : files'[k] = files[k]
    /\ \A k \in DOMAIN columnData \ {id} : columnData'[k] = columnData[k]

(***************************************************************************)
(* C16: DeleteFile(id) removes the metadata entry and the column data of   *)
(* id and nothing else.  For an unknown id it leaves the store as it was,  *)
(* so a second DeleteFile(id) changes nothing, and returns "file not       *)
(* found"; handleDeleteFile answers 204 whether or not the id was known.   *)
(***************************************************************************)
C16_DeleteRemovesBothOnce ==
    [][\A g \in Callers, id \in OpIds :
          /\ (calls'[g].op = "DeleteFile" /\ DeleteFile(g, id)) =>
                /\ id \notin DOMAIN files' /\ id \notin DOMAIN columnData'
                /\ OthersKept(id)
                /\ id \notin DOMAIN files =>
                      /\ UNCHANGED <<files, columnData>>
                      /\ Contains(calls'[g].err, <<"file", "not", "found:">>)
                /\ id \in DOMAIN files => calls'[g].err = nil
          /\ (calls'[g].op = "handleDeleteFile" /\ handleDeleteFile(g, id)) =>
                /\ id \notin DOMAIN files' /\ id \notin DOMAIN columnData'
                /\ OthersKept(id)
                /\ calls'[g].status = StatusNoContent]_vars

\* C16 as stated: DeleteFile of an unknown id returns no error
C16_AsStated ==
    [][\A g \in Callers, id \in OpIds :
          (calls'[g].op = "DeleteFile" /\ DeleteFile(g, id)) =>
                /\ id \notin DOMAIN files' /\ id \notin DOMAIN columnData'
                /\ OthersKept(id)
                /\ id \notin DOMAIN files => UNCHANGED <<files, columnData>>
                /\ calls'[g].err = nil]_vars

\* one goroutine has deleted a loaded file and the other has then been told
\* that the same id is not found
C16_Witness ==
    /\ calls["g1"] = Ready("DeleteFile", nil)
    /\ calls["g2"] = Ready("DeleteFile", ErrNotFound)
    /\ DOMAIN files = 1 .. PreLoaded
    /\ DOMAIN columnData = 1 .. PreLoaded

(***************************************************************************)
(* C17: RegisterFile(id, name, path) of an unknown id adds an entry that   *)
(* is not loaded, has zero rows, no columns and no column data, whether or *)
(* not a file exists at path; it changes no other entry and no column      *)
(* data; and for a known id, loaded or not, it changes nothing.            *)
(***************************************************************************)
C17_RegisterAddsMetadataOnly ==
    [][\A g \in Callers, id \in OpIds, path \in RegisterPaths :
          (calls'[g].op = "RegisterFile" /\ RegisterFile(g, id, path)) =>
                /\ OthersKept(id)
                /\ UNCHANGED <<columnData, uploads>>
                /\ calls'[g].err = nil
                /\ id \in DOMAIN files => UNCHANGED files
                /\ id \notin DOMAIN files =>
                      /\ id \in DOMAIN files' /\ id \notin DOMAIN columnData'
                      /\ files'[id].ID = id /\ files'[id].Path = path
                      /\ ~files'[id].IsLoaded
                      /\ files'[id].RowCount = 0
                      /\ files'[id].Columns = <<>>]_vars

\* an id was registered for a path where no file is, and a RegisterFile has
\* returned while another id the requests use is still loaded
C17_Witness ==
    /\ calls["g1"] = Ready("RegisterFile", nil)
    /\ calls["g2"] = Ready("RegisterFile", nil)
    /\ {PreLoaded + 1, PreLoaded + 2} \subseteq DOMAIN files
    /\ files[PreLoaded + 1].IsLoaded /\ files[PreLoaded + 1].RowCount = 2
    /\ PreLoaded + 1 \in DOMAIN columnData
    /\ ~files[PreLoaded + 2].IsLoaded
    /\ files[PreLoaded + 2].Path = "missing.csv"
    /\ ~DiskFile("missing.csv").exists

\* goroutine g has returned from LoadFile
Loaded(g) == calls[g].pc = "ready" /\ calls[g].op = "LoadFile"

\* the file at path has a header of two columns or more and every line after
\* it has as many fields as the header
WellFormed(path) ==
    LET d == DiskFile(path)
        header == Fields(d.runs[1].line)
        lines == LinesFrom(d.runs, 2)
    IN  /\ d.exists /\ d.openable /\ d.size <= MaxFileSize /\ d.runs # <<>>
        /\ Len(header) >= 2
        /\ \A i \in 1 .. Len(lines) : Len(lines[i]) = Len(header)

\* the stored values of id: NaN for a field that is "N/A", empty or not a
\* number, else the number
CellsStored(id) ==
    LET header == Fields(DiskFile(files[id].Path).runs[1].line)
        rows == TimedRows(DiskFile(files[id].Path))
    IN  \A p \in 2 .. Len(header), i \in 1 .. Len(rows) :
            LET stored == columnData[id].Values[header[p]][i]
            IN  IF rows[i][p].k = "num"
                THEN ~stored.nan /\ stored.v = rows[i][p].v
                ELSE stored.nan

\* what a LoadFile of the well-formed file data.csv as id 1 must have done
SkipsAndStores(g) ==
    LET rows == TimedRows(DiskFile("data.csv"))
    IN  /\ calls[g].err \in {nil, ErrNoRows}
        /\ calls[g].err = ErrNoRows <=> rows = <<>>
        /\ calls[g].err = nil =>
              /\ 1 \in DOMAIN columnData
              /\ files[1].RowCount = Len(rows)
              /\ columnData[1].Timestamps = [i \in 1 .. Len(rows) |-> rows[i][1].v]
              /\ ~HasRepeatedColumn(files[1].Columns) => CellsStored(1)

PastBaseline ==
    ~samplers.cpuFirstRun /\ ~samplers.diskFirstRun /\ ~samplers.netFirstRun

\* this step put a snapshot into the channel
Published == Len(sent') = Len(sent) + 1

\* snapshot s has the metrics of every resource whose read succeeded in r
CarriesOthers(s, r) ==
    /\ ~r.cpu.err => s.CPU = r.cpu.util /\ s.CPUWait = r.cpu.wait
    /\ ~r.mem.err => s.Memory = r.mem.util
    /\ ~r.disk.err => DOMAIN s.Disks = r.disk.devs
    /\ ~r.net.err => DOMAIN s.Networks = r.net.ifs

(***************************************************************************)
(* C19: a tick after the baseline in which exactly one of the four         *)
(* collectors fails, with room in the channel, publishes a snapshot that   *)
(* carries the metrics of the other three.                                 *)
(***************************************************************************)
C19_OneFailureStillPublishes ==
    [][\A r \in FaultyReadings :
          (MgrTick(r) /\ Cardinality(Failures(r)) = 1
           /\ PastBaseline /\ Len(queue) < QueueCap)
              => (Published /\ CarriesOthers(sent'[Len(sent')], r))]_vars

\* the same for a failure of the CPU or the memory collector
C19_HoldsForCpuAndMemory ==
    [][\A r \in FaultyReadings :
          (MgrTick(r) /\ Cardinality(Failures(r)) = 1 /\ Failures(r) \subseteq {"cpu", "mem"}
           /\ PastBaseline /\ Len(queue) < QueueCap)
              => (Published /\ CarriesOthers(sent'[Len(sent')], r))]_vars

(***************************************************************************)
(* C20: the row built from the snapshot of a tick in which a collector     *)
(* failed shows no value for that resource: N/A in the CPU and CPU-wait    *)
(* cells after a CPU failure, in the memory cell after a memory failure,   *)
(* and in every disk or interface cell after a disk or network failure.    *)
(***************************************************************************)
C20_FailedResourceNotPresented ==
    [][\A r \in FaultyReadings :
          (MgrTick(r) /\ Published) =>
              LET row == buildRow(e, sent'[Len(sent')])
              IN  /\ r.cpu.err => row[2] = naString /\ row[3] = naString
                  /\ r.mem.err => row[4] = naString
                  /\ (r.disk.err \/ r.net.err) =>
                        \A c \in 5 .. Len(row) : row[c] = naString]_vars

(***************************************************************************)
(* C21: the baseline pass, which Manager.Start runs before the startup     *)
(* delay, puts no snapshot into the channel, whether the counter reads     *)
(* succeed or one of them fails; it only seeds the collectors.             *)
(***************************************************************************)
C21_BaselineEnqueuesNothing ==
    [][mgrPc = "baseline" => (queue' = queue /\ sent' = sent)]_vars

\* the baseline has run and has seeded the disk and the network collector
C21_Witness ==
    /\ mgrPc = "delay"
    /\ ~samplers.diskFirstRun /\ samplers.diskPrev = {"sda"}
    /\ ~samplers.netFirstRun /\ samplers.netPrev = {"eth0"}
    /\ sent = <<>>

\* goroutine g holds the result of delta-engine function op
Called(g, op) == calls[g].op = op
Prev(g) == calls[g].args[1]
Current(g) == calls[g].args[2]

(***************************************************************************)
(* C24: CalculateDiskUtilization returns a value within [0,100] for every  *)
(* pair of samples, also when the busy-time counter went backwards and the *)
(* unsigned subtraction wrapped; when the busy time grew by at least the   *)
(* wall time between the samples (1000 ms to 2500 ms over one second), it  *)
(* returns exactly 100.                                                    *)
(***************************************************************************)
C24_DiskUtilizationInRange ==
    \A g \in DOMAIN calls :
        Called(g, "CalculateDiskUtilization") =>
            LET dt == Current(g).Timestamp - Prev(g).Timestamp
                busy == Current(g).IOTime - Prev(g).IOTime
            IN  /\ calls[g].out \in 0 .. 100000
                /\ (~IsZero(Prev(g).Timestamp) /\ dt > 0 /\ busy >= 1000 * dt)
                      => calls[g].out = 100000

\* busy time 1000 ms to 2500 ms over one second: capped at 100
C24_Witness ==
    /\ "g1" \in DOMAIN calls
    /\ Called("g1", "CalculateDiskUtilization")
    /\ Prev("g1").IOTime = 1000 /\ Current("g1").IOTime = 2500
    /\ Prev("g1").Timestamp = 0 /\ Current("g1").Timestamp = startUpDelay
    /\ calls["g1"].out = 100000

\* the busy-time counter went backwards and the result is a percentage
C24_BackwardsWitness ==
    /\ "g1" \in DOMAIN calls
    /\ Called("g1", "CalculateDiskUtilization")
    /\ Prev("g1").IOTime = 2500 /\ Current("g1").IOTime = 1000
    /\ Prev("g1").Timestamp = 0 /\ Current("g1").Timestamp = SamplingInterval
    /\ calls["g1"].out \in 1 .. 100000

\* the denominators the delta engine computes for the call of goroutine g
DeltaTotal(g) == TotalCPU(Current(g)) - TotalCPU(Prev(g))
DeltaTime(g) == Current(g).Timestamp - Prev(g).Timestamp
TotalOps(g) ==
    Wrap(Wrap(Current(g).ReadCount - Prev(g).ReadCount)
         + Wrap(Current(g).WriteCount - Prev(g).WriteCount))

(***************************************************************************)
(* C25: every function of the delta engine returns a value for every pair  *)
(* of samples, and its fallback on a degenerate pair, tested in this       *)
(* order: 0 (-1 for the CPU wait) when the previous sample has the zero    *)
(* timestamp; else -1 for the CPU wait when the current wait counter is    *)
(* negative; else 0 when the denominator it computes (delta total CPU      *)
(* time, delta wall time, delta operations) is <= 0.  No call divides by   *)
(* zero: TLC stops on a division by zero.                                  *)
(***************************************************************************)
C25_FallbackOnDegenerateInput ==
    \A g \in DOMAIN calls :
        LET out == calls[g].out
            zero == IsZero(Prev(g).Timestamp)
        IN  /\ Called(g, "CalculateCPUUtilization") =>
                  /\ zero => out = 0
                  /\ DeltaTotal(g) <= 0 => out = 0
            /\ Called(g, "CalculateCPUIOWait") =>
                  /\ zero => out = -1000
                  /\ (~zero /\ Current(g).IOWait < 0) => out = -1000
                  /\ (~zero /\ Current(g).IOWait >= 0 /\ DeltaTotal(g) <= 0) => out = 0
            /\ Called(g, "CalculateDiskUtilization") =>
                  ((zero \/ DeltaTime(g) <= 0) => out = 0)
            /\ Called(g, "CalculateDiskAwait") =>
                  ((zero \/ TotalOps(g) <= 0) => out = 0)
            /\ Called(g, "CalculateDiskIOPS") =>
                  ((zero \/ DeltaTime(g) <= 0) => out = 0)
            /\ Called(g, "CalculateNetworkBandwidth") =>
                  ((zero \/ DeltaTime(g) <= 0) => out = 0)

\* the CPU wait of a pair whose previous sample is the zero value
C25_Witness ==
    /\ "g1" \in DOMAIN calls
    /\ Called("g1", "CalculateCPUIOWait")
    /\ IsZero(Prev("g1").Timestamp) /\ ~IsZero(Current("g1").Timestamp)
    /\ Current("g1").IOWait >= 0
    /\ calls["g1"].out = -1000

\* a disk whose operation counters stood still: no division, await 0
C25_NoOperationsWitness ==
    /\ "g1" \in DOMAIN calls
    /\ Called("g1", "CalculateDiskAwait")
    /\ ~IsZero(Prev("g1").Timestamp) /\ TotalOps("g1") = 0
    /\ Current("g1").ReadTime # Prev("g1").ReadTime
    /\ calls["g1"].out = 0

\* the elements of a list
Elems(list) == {list[i] : i \in 1 .. Len(list)}

(***************************************************************************)
(* C26: the disk filter and the network filter alike monitor a device if   *)
(* and only if it is not in the exclude list and the include list is empty *)
(* or holds the device; a device in both lists is not monitored.           *)
(***************************************************************************)
C26_MonitoredIffNotExcludedAndIncluded ==
    \A g \in DOMAIN calls :
        calls[g].op \in {"DiskCollector.shouldMonitor", "NetworkCollector.shouldMonitor"} =>
            LET name == calls[g].args[1]
                include == calls[g].args[2]
                exclude == calls[g].args[3]
            IN  calls[g].out <=>
                    /\ name \notin Elems(exclude)
                    /\ include = <<>> \/ name \in Elems(include)

\* the disk filter was asked about a device that is in both lists
C26_Witness ==
    /\ "g1" \in DOMAIN calls
    /\ calls["g1"].op = "DiskCollector.shouldMonitor"
    /\ calls["g1"].args = <<"sda", <<"sda">>, <<"sdb", "sda">> >>
    /\ calls["g1"].out = FALSE

\* the network filter lets an included interface through
C26_NetworkWitness ==
    /\ "g1" \in DOMAIN calls
    /\ calls["g1"].op = "NetworkCollector.shouldMonitor"
    /\ calls["g1"].args = <<"eth0", <<"sda", "eth0">>, <<"sdb">> >>
    /\ calls["g1"].out = TRUE

(***************************************************************************)
(* C22: every snapshot ever put into the channel has at least one disk and *)
(* at least one network interface; a pass whose disk or network            *)
(* contribution is empty (baseline, failed read, filters or platform       *)
(* leaving no device) publishes nothing.                                   *)
(***************************************************************************)
C22_EnqueuedHasDiskAndNetwork ==
    \A i \in 1 .. Len(sent) :
        DOMAIN sent[i].Disks # {} /\ DOMAIN sent[i].Networks # {}

\* a run whose disk filter refuses every device: the tick has published nothing
C22_Witness ==
    /\ "ExcludeDisks" \in DOMAIN cfg
    /\ cfg.IncludeDisks = <<"sda">> /\ cfg.ExcludeDisks = <<"/dev/sda">>
    /\ mgrPc = "loop" /\ ticksLeft = 0
    /\ ~samplers.diskFirstRun /\ samplers.diskPrev = {}
    /\ ~samplers.netFirstRun /\ samplers.netPrev = {"eth0"}
    /\ sent = <<>>

\* a run without filters has published a snapshot of both disks
C22_PublishedWitness ==
    /\ Len(sent) = 1
    /\ DOMAIN sent[1].Disks = Devices /\ DOMAIN sent[1].Networks = {"eth0"}

\* a percentage in thousandths
Percent(x) == x >= 0 /\ x <= 100000

SnapshotInRange(s) ==
    /\ Percent(s.CPU)
    /\ s.CPUWait = -1000 \/ Percent(s.CPUWait)
    /\ Percent(s.Memory)
    /\ \A d \in DOMAIN s.Disks : Percent(s.Disks[d].Utilization)

\* no CPU time of the pass is below the one the collector kept
NonDecreasing_CPU(raw) ==
    /\ raw.cpu.times.User >= raw.cpu.prev.User
    /\ raw.cpu.times.System >= raw.cpu.prev.System
    /\ raw.cpu.times.Idle >= raw.cpu.prev.Idle
    /\ raw.cpu.times.Iowait >= raw.cpu.prev.Iowait

(***************************************************************************)
(* C23: every snapshot put into the channel has CPU utilization, memory    *)
(* utilization and every disk utilization within [0,100], and a CPU wait   *)
(* that is -1 or within [0,100], whatever raw counters the passes read.    *)
(***************************************************************************)
C23_MetricsInRange ==
    \A i \in 1 .. Len(sent) : SnapshotInRange(sent[i])

\* the same for the passes in which no CPU time went backwards
C23_HoldsForNonDecreasingCPUTimes ==
    [][\A raw \in RawPasses :
          (NonDecreasing_CPU(raw) /\ mgrPc = "loop" /\ MgrTick(Reading(raw)) /\ Published)
              => SnapshotInRange(sent'[Len(sent')])]_vars

\* nothing has been constructed, sampled or written in this run
NothingStarted ==
    /\ e = <<>>
    /\ mgrPc = "absent" /\ sinkPc = "absent"
    /\ samplers = SamplersInit
    /\ queue = <<>> /\ sent = <<>>
    /\ \A p \in DOMAIN fs : fs[p] = <<>>

\* the configuration cannot pass Validate and NewCSVExporter
BadConfig == cfg.BufferSize < 1 \/ cfg.Timezone \notin {"", "UTC", "America/New_York"}

(***************************************************************************)
(* C27: a configuration failure is fatal before any collection starts:     *)
(* when the time zone name does not resolve, or validation or the          *)
(* construction of the exporter fails otherwise, then at every later       *)
(* moment no exporter exists, no collector has been called and no row has  *)
(* been written.                                                           *)
(***************************************************************************)
C27_ConfigFailureIsFatal ==
    (BadConfig \/ mainPc = "failed") => NothingStarted

\* runCollect has returned the error of an unknown time zone
C27_Witness ==
    /\ mainPc = "failed"
    /\ cfg.Timezone = "Mars/Olympus_Mons" /\ cfg.BufferSize = BufferSize
    /\ NothingStarted

\* a valid configuration whose output file cannot be opened
C27_OpenFailsWitness ==
    /\ mainPc = "failed"
    /\ ~BadConfig
    /\ NothingStarted

\* the exporter's writer is in its failed state: a write or flush has failed
SinkFailed == sinkPc # "absent" /\ e.bufErr

(***************************************************************************)
(* C28: a failed write or flush does not stop the exporter.  Start returns *)
(* only on cancellation or when the channel is closed and empty; and once  *)
(* the writer has failed, whatever waits in the channel is still taken out *)
(* of it, snapshot by snapshot, until the channel is empty, unless the run *)
(* is cancelled first.                                                     *)
(***************************************************************************)
C28_FailureDoesNotStopSink ==
    /\ [][(sinkPc = "run" /\ sinkPc' # "run")
             => (ctxDone \/ (chanClosed /\ queue = <<>>))]_vars
    /\ (SinkFailed /\ queue # <<>>) ~> (queue = <<>> \/ ctxDone)

\* a time-based flush failed after the first snapshot, and the exporter has
\* since taken the second one out of the channel
C28_Witness ==
    /\ SinkFailed /\ sinkPc = "run" /\ ~ctxDone
    /\ flushFaults < MaxFlushFaults
    /\ \A p \in DOMAIN fs : RowsOnDisk(p) = <<>>
    /\ Len(sent) = 2 /\ queue = <<>>
    /\ e.recordCount = 1

Enqueued(k) == \E i \in 1..Len(sent) : sent[i].Timestamp = k
AllDone(k) == \A c \in Collectors : calls[<<k, c>>].pc = "done"

(***************************************************************************)
(* C29: a pass whose snapshot is in the channel has all four of its        *)
(* goroutines finished (the send comes after the barrier, and nothing of   *)
(* the pass runs after it); and every step that changes the snapshot of a  *)
(* pass is taken by the goroutine that holds mu of that pass, before the   *)
(* snapshot is sent.                                                       *)
(***************************************************************************)
C29_SendAfterBarrierWritesUnderMutex ==
    /\ [](\A k \in Passes : Enqueued(k) => AllDone(k))
    /\ [][\A k \in Passes :
             Locals(k)'.snapshot # Locals(k).snapshot
                 => /\ Locals(k).mu \in Collectors
                    /\ calls[<<k, Locals(k).mu>>].pc = "locked"
                    /\ calls'[<<k, Locals(k).mu>>].pc = "done"
                    /\ ~Enqueued(k)]_vars

\* the snapshot of a tick is in the channel, with the CPU figure its goroutine stored
C29_Witness ==
    \E k \in Passes :
        /\ Enqueued(k)
        /\ AllDone(k)
        /\ Locals(k).snapshot.CPU = 50128
        /\ Locals(k).wg = 0

\* the fields of the collectors that the Collect of collector c reads and writes
Kept(c) ==
    CASE c = "CPU" -> {"cpuFirstRun"}
      [] c = "Memory" -> {}
      [] c = "Disk" -> {"diskFirstRun", "diskPrev"}
      [] c = "Network" -> {"netFirstRun", "netPrev"}

Running(k) == \E c \in Collectors : calls[<<k, c>>].pc # "done"

(***************************************************************************)
(* C30: no two goroutines are inside Collect of the same collector at the  *)
(* same time, no two passes have unfinished goroutines at the same time,   *)
(* and a step that changes the state a collector keeps between passes is   *)
(* the return of that collector's Collect in the current pass.             *)
(***************************************************************************)
C30_CollectNeverOverlaps ==
    /\ [](\A g, h \in Goroutines :
             (g # h /\ calls[g].pc = "collecting" /\ calls[h].pc = "collecting")
                 => g[2] # h[2])
    /\ [](\A k, l \in Passes : (Running(k) /\ Running(l)) => k = l)
    /\ [][samplers' # samplers
             => \E c \in Collectors :
                    /\ {f \in DOMAIN samplers : samplers'[f] # samplers[f]} \subseteq Kept(c)
                    /\ <<now, c>> \in Goroutines
                    /\ calls[<<now, c>>].pc = "collecting"
                    /\ calls'[<<now, c>>].pc = "collected"]_vars

\* the second pass is under way after the baseline, with a goroutine inside Collect
C30_Witness ==
    \E k, l \in Passes :
        /\ k < l
        /\ AllDone(k)
        /\ calls[<<l, "Disk">>].pc = "collecting"
        /\ ~samplers.diskFirstRun

Before(g) == calls[g].args[1]
Read(g) == calls[g].args[2]

\* the statistics the last Collect made of what it read, by device
CurrentOf(g) ==
    CASE calls[g].op = "DiskCollector.Collect" ->
             DiskCurrent(Before(g), cfg.GOOS, Read(g), now - SamplingInterval)
      [] calls[g].op = "NetworkCollector.Collect" ->
             NetCurrent(Before(g), Read(g), now - SamplingInterval)

\* the last Collect failed to read the counters: error, collector untouched
FailedRead(g, f) ==
    Read(g).err => (calls[g].out.err /\ samplers[f] = Before(g))

\* the last CPU Collect read the counters
CPUBaselineThenDelta(g) ==
    LET c == Before(g)
        out == calls[g].out
        currentStats == getCPUTimeStats(cfg.GOOS, Read(g).times, now - SamplingInterval)
    IN  ~Read(g).err =>
            /\ ~out.err
            /\ samplers.cpu = [firstRun |-> FALSE, prevStats |-> currentStats]
            /\ IF c.firstRun
               THEN out.utilization = 0 /\ out.iowait = -1000
               ELSE /\ out.utilization = CalculateCPUUtilization(c.prevStats, currentStats)
                    /\ out.iowait = CalculateCPUIOWait(c.prevStats, currentStats)

\* the last disk or network Collect read the counters: the baseline returns nil, a
\* later call returns a metric for every device it has previous statistics of
MapBaselineThenDelta(g, f) ==
    LET c == Before(g)
        out == calls[g].out
        current == CurrentOf(g)
    IN  ~Read(g).err =>
            /\ ~out.err
            /\ ~samplers[f].firstRun
            /\ \A x \in DOMAIN current : samplers[f].prevStats[x] = current[x]
            /\ IF c.firstRun
               THEN out.nil /\ DOMAIN c.prevStats = {}
               ELSE /\ ~out.nil
                    /\ DOMAIN out.result = DOMAIN current \cap DOMAIN c.prevStats
                    /\ \A x \in DOMAIN out.result :
                          IF f = "disk"
                          THEN out.result[x] =
                                 [Utilization |-> CalculateDiskUtilization(c.prevStats[x], current[x]),
                                  Await |-> CalculateDiskAwait(c.prevStats[x], current[x]),
                                  IOPS |-> CalculateDiskIOPS(c.prevStats[x], current[x])]
                          ELSE out.result[x] =
                                 [Bandwidth |-> CalculateNetworkBandwidth(c.prevStats[x], current[x])]

\* the last Collect kept the statistics of the devices that were not in its reading
KeepsOthers(g, f) ==
    ~Read(g).err =>
        \A x \in DOMAIN Before(g).prevStats \ DOMAIN CurrentOf(g) :
            /\ x \in DOMAIN samplers[f].prevStats
            /\ samplers[f].prevStats[x] = Before(g).prevStats[x]

C31_CPUWitness ==
    /\ Called("g1", "CPUCollector.Collect")
    /\ ~Before("g1").firstRun
    /\ ~Read("g1").err
    /\ calls["g1"].out.utilization > 0

\* the step takes a snapshot out of the channel
Receives == Len(queue) > 0 /\ Len(sent') - Len(queue') = Len(sent) - Len(queue) + 1

\* the exporter attempted a flush in this step: the buffer went to the file, or the
\* writer holds the error of the failed write
FlushAttempted == e'.buf = <<>> \/ e'.bufErr

(***************************************************************************)
(* C32: between two events of the exporter's loop recordCount is below the *)
(* configured BufferSize.  A receive counts one record; when that reaches  *)
(* BufferSize the same event flushes and sets the count to 0.  An event    *)
(* that takes nothing from the channel and does not end the loop (the      *)
(* flush ticker) sets a positive count to 0 and flushes, and with a count  *)
(* of 0 it leaves the exporter and the files as they are.                  *)
(***************************************************************************)
C32_CountBelowBufferSize ==
    /\ [](e.recordCount >= 0 /\ e.recordCount < cfg.BufferSize)
    /\ [][(sinkPc = "run" /\ Receives)
             => IF e.recordCount + 1 >= cfg.BufferSize
                THEN e'.recordCount = 0 /\ FlushAttempted
                ELSE e'.recordCount = e.recordCount + 1]_vars
    /\ [][(sinkPc = "run" /\ sinkPc' = "run" /\ ~Receives)
             => IF e.recordCount > 0
                THEN e' = e \/ (e'.recordCount = 0 /\ FlushAttempted)
                ELSE e' = e /\ fs' = fs]_vars

\* the flush ticker has put the only record of the run into the file, and the loop goes on
C32_Witness ==
    /\ sinkPc = "run"
    /\ ~ctxDone
    /\ Len(Consumed) = 1
    /\ e.recordCount = 0
    /\ e.buf = <<>>
    /\ Len(RowsOnDisk(e.file)) = 1

\* two records were received and flushed by the second receive
C32_FullBufferWitness ==
    /\ sinkPc = "run"
    /\ Len(Consumed) = cfg.BufferSize
    /\ e.recordCount = 0
    /\ Len(RowsOnDisk(e.file)) = cfg.BufferSize

\* every snapshot the exporter took from the channel has its row in a file, and the
\* buffer is empty
AllFlushed ==
    /\ e.buf = <<>>
    /\ \A k \in 1 .. Len(Consumed) : Written(Consumed[k])

\* the error the writer keeps after a failed write to the file; the final flush of
\* Start returns an error exactly when it leaves the writer with it
WriterFailed == e.bufErr

C33_ClosedWitness ==
    /\ sinkPc = "returned"
    /\ chanClosed
    /\ queue = <<>>
    /\ ~WriterFailed
    /\ Len(Consumed) = Len(sent)
    /\ Len(sent) >= 1
    /\ e.recordCount = 1

\* the step is a sampling pass of the manager: a tick of the loop
RunsPass == IsTick

(***************************************************************************)
(* C34: once the context is cancelled the manager runs no further tick,    *)
(* also when the ticker is ready at the same time.                         *)
(***************************************************************************)
C34_NoTickAfterCancel == [][ctxDone => ~RunsPass]_vars

\* what does hold: once Start has returned no pass is run, and a cancelled manager
\* that is waiting can always return
C34_ReturnedRunsNothing ==
    /\ [][mgrPc = "stopped" => (~RunsPass /\ samplers' = samplers /\ sent' = sent)]_vars
    /\ []((ctxDone /\ mgrPc \in {"delay", "loop"}) => ENABLED MgrStop)

\* the order of the shutdown: Start of the manager returns only under cancellation,
\* the channel is closed only after that and receives nothing afterwards, and the
\* file is closed only after Start of the exporter has returned
ShutdownOrder ==
    /\ [][(mgrPc # "stopped" /\ mgrPc' = "stopped") => ctxDone]_vars
    /\ [][(~chanClosed /\ chanClosed') => mgrPc = "stopped"]_vars
    /\ [][chanClosed => (sent' = sent /\ Len(queue') <= Len(queue)
                         /\ dropWarnings' = dropWarnings)]_vars
    /\ [][(mainPc # "done" /\ mainPc' = "done")
             => (sinkPc = "returned" /\ chanClosed /\ ~e'.open)]_vars

ShutdownComplete ==
    /\ mgrPc = "stopped"
    /\ chanClosed
    /\ sinkPc = "returned"
    /\ mainPc = "done"

C36_ColumnsIffLoaded ==
    \A id \in DOMAIN files \cup DOMAIN columnData \cup OpIds :
        (id \in DOMAIN columnData) <=> (id \in DOMAIN files /\ files[id].IsLoaded)

\* one id is registered without columns, the other was loaded by LoadFileContent, and
\* a file loaded before has been deleted
C36_Witness ==
    \E id, other \in OpIds :
        /\ id \in DOMAIN files /\ ~files[id].IsLoaded /\ id \notin DOMAIN columnData
        /\ other \in DOMAIN columnData /\ files[other].IsLoaded
        /\ \E g \in Callers : calls[g].op = "LoadFileContent" /\ calls[g].pc = "ready"
                              /\ calls[g].err = nil
        /\ Cardinality(DOMAIN files) <= PreLoaded

\* the raw range [startIdx, endIdx) of an answered query, lines 376-386
RawRange(g) ==
    LET a == calls[g].args
        ts == columnData[a[1]].Timestamps
        n == Len(ts)
    IN  [startIdx |-> IF a[3] = <<>> THEN 0 ELSE Search(ts, a[3][1], FALSE, 0, n),
         endIdx |-> IF a[4] = <<>> THEN n ELSE Min(Search(ts, a[4][1], TRUE, 0, n), n)]

\* g holds the answer of a query that was downsampled
Downsampled(g) ==
    /\ Answered(g)
    /\ calls[g].args[1] \in DOMAIN columnData
    /\ calls[g].args[2] \in DOMAIN columnData[calls[g].args[1]].Values
    /\ RawRange(g).endIdx - RawRange(g).startIdx > maxPoints

\* the raw indices of bucket i of the query g answered
BucketOf(g, i) ==
    LET b == BucketBounds(RawRange(g).startIdx, RawRange(g).endIdx, i)
    IN  b.pStart .. b.pEnd - 1

RECURSIVE SumOf(_, _)
SumOf(v, rows) ==
    IF rows = {} THEN 0
    ELSE LET j == CHOOSE k \in rows : TRUE
         IN  v[j + 1].v + SumOf(v, rows \ {j})

\* the buckets are contiguous from startIdx on, none is empty and none
\* reaches beyond endIdx
BucketsContiguous(g) ==
    LET r == RawRange(g)
        b == [i \in 0 .. maxPoints - 1 |-> BucketBounds(r.startIdx, r.endIdx, i)]
    IN  /\ b[0].pStart = r.startIdx
        /\ \A i \in 0 .. maxPoints - 1 : b[i].pStart < b[i].pEnd /\ b[i].pEnd <= r.endIdx
        /\ \A i \in 0 .. maxPoints - 2 : b[i].pEnd = b[i + 1].pStart

\* every point is the mean and the first timestamp of a bucket, bucket by
\* bucket, and the timestamps of the points do not decrease
PointsOfBuckets(g) ==
    LET a == calls[g].args
        ts == columnData[a[1]].Timestamps
        v == columnData[a[1]].Values[a[2]]
        good == [i \in 0 .. maxPoints - 1 |-> {j \in BucketOf(g, i) : ~v[j + 1].nan}]
        kept == SelectSeq([k \in 1 .. maxPoints |-> k - 1], LAMBDA i : good[i] # {})
        out == calls[g].out
    IN  /\ Len(out) = Len(kept)
        /\ \A k \in 1 .. Len(kept) :
              LET rows == BucketOf(g, kept[k])
                  first == CHOOSE j \in rows : \A x \in rows : j <= x
              IN  /\ out[k].Timestamp = ts[first + 1]
                  /\ out[k].Value = SumOf(v, good[kept[k]]) \div Cardinality(good[kept[k]])
        /\ \A k \in 1 .. Len(out) - 1 : out[k].Timestamp <= out[k + 1].Timestamp

(***************************************************************************)
(* C37: in a downsampled query the 2,000 buckets are contiguous, do not    *)
(* overlap, are each non-empty and together cover every raw index of the   *)
(* requested range exactly once; each emitted point carries the mean of    *)
(* the values of its bucket that are not NaN and the timestamp of the      *)
(* bucket's first raw sample, and the emitted timestamps do not decrease.  *)
(***************************************************************************)
C37_BucketsCoverRange ==
    \A g \in DOMAIN calls :
        Downsampled(g) =>
            /\ BucketsContiguous(g)
            /\ UNION {BucketOf(g, i) : i \in 0 .. maxPoints - 1}
                  = RawRange(g).startIdx .. RawRange(g).endIdx - 1
            /\ PointsOfBuckets(g)

\* C37 without the cover: the buckets are contiguous from the first index
\* of the range on, each holds a row, and the points are their means; the
\* rows from the end of the last bucket to the end of the range, at most
\* one, are in no bucket
C37_ContiguousBucketsOfMeans ==
    \A g \in DOMAIN calls :
        Downsampled(g) =>
            /\ BucketsContiguous(g)
            /\ RawRange(g).endIdx
                  - BucketBounds(RawRange(g).startIdx, RawRange(g).endIdx, maxPoints - 1).pEnd <= 1
            /\ PointsOfBuckets(g)

\* a downsampled query whose last raw index is in no bucket
C37_LastRowDropped ==
    \E g \in DOMAIN calls :
        /\ Downsampled(g)
        /\ BucketBounds(RawRange(g).startIdx, RawRange(g).endIdx, maxPoints - 1).pEnd
              < RawRange(g).endIdx

\* the exporter holds its file open and its writer holds no error
WriterSound == e.open /\ ~e.bufErr

\* the step opened a file that did not exist, beyond the rotation index
Rotated ==
    /\ e'.file # e.file
    /\ e'.file \notin DOMAIN fs
    /\ e'.file > e.fileIndex
    /\ e'.fileIndex = e'.file

(***************************************************************************)
(* C38: the exporter rotates in a step only when it takes a snapshot while *)
(* the tracked size is at or above DefaultMaxOutputFileSize; when it does  *)
(* so with its file open, no writer error and no failure of the rotation,  *)
(* it rotates to an index above every index it had before, and the tracked *)
(* size then counts from 0 the one row written after the rotation; so a    *)
(* row is accepted for a file whose tracked size had reached the threshold *)
(* only when the rotation failed.  The rotation index never decreases and  *)
(* the exporter's file is never beyond it.                                 *)
(***************************************************************************)
C38_RotatesBeforeRowAtThreshold ==
    /\ [](e.file <= e.fileIndex)
    /\ [][e'.fileIndex >= e.fileIndex]_vars
    /\ [][e'.file # e.file => Receives /\ e.currentSize >= DefaultMaxOutputFileSize]_vars
    /\ [][(Receives /\ e.currentSize >= DefaultMaxOutputFileSize
                    /\ WriterSound /\ rotFaults' = rotFaults) =>
            /\ Rotated
            /\ LET rows == DataRows(LinesOf(fs', e', e'.file))
               IN  /\ Len(rows) = 1
                   /\ e'.currentSize = RowBytes(rows[1].cells)
                   /\ e'.currentSize < DefaultMaxOutputFileSize]_vars
    /\ [][(Receives /\ e.currentSize >= DefaultMaxOutputFileSize
                    /\ e'.file = e.file /\ e'.currentSize > e.currentSize) =>
            (~e.open \/ rotFaults' < rotFaults)]_vars

\* the exporter rotated at the threshold without any failure and counts the
\* size of the new file from its first row
C38_Witness ==
    /\ e.file > 0
    /\ e.fileIndex = e.file
    /\ rotFaults = MaxRotFaults
    /\ 0 < e.currentSize
    /\ e.currentSize < DefaultMaxOutputFileSize

\* a row was accepted at the threshold for the old file after a failed rotation
C38_FailedRotationWitness ==
    /\ e.file = 0
    /\ rotFaults < MaxRotFaults
    /\ e.currentSize > BaseFull

\* what this run has put into a sequence of lines: all but the content that
\* was in the files before the run
OfThisRun(lines) == SelectSeq(lines, LAMBDA l : l # ForeignLine)

\* a header first, and no other header
HeaderFirstAndOnly(lines) ==
    /\ lines[1].hdr
    /\ \A k \in 2 .. Len(lines) : ~lines[k].hdr

Commits(g) == calls[g].pc = "commit" /\ calls'[g].pc = "ready"

Absent(id) == id \notin DOMAIN files /\ id \notin DOMAIN columnData

(***************************************************************************)
(* C40: once DeleteFile(id) or DeleteAll has returned, a LoadFileContent   *)
(* for id that was in progress during the delete does not put back the     *)
(* entry or its columns.  LoadFileContent goes on past its lookup only     *)
(* for an id that has an entry, so when it comes to its update and the id  *)
(* has none, a delete has returned in between.                             *)
(***************************************************************************)
C40_DeleteOutlastsLoadInProgress ==
    [][\A g \in DOMAIN calls :
          (Commits(g) /\ calls[g].op = "LoadFileContent" /\ calls[g].id \notin DOMAIN files)
              => (calls[g].id \notin DOMAIN files' /\ calls[g].id \notin DOMAIN columnData')]_vars

\* what a delete does ensure: an id that is absent gets an entry or columns
\* only in a step that registers it or ends a LoadFile or LoadFileContent for
\* it, and columns only together with a loaded entry
C40_OnlyLoadsAndRegistersInsert ==
    [][\A id \in OpIds :
          (Absent(id) /\ ~(id \notin DOMAIN files' /\ id \notin DOMAIN columnData')) =>
              \E g \in DOMAIN calls :
                  \/ Commits(g) /\ calls[g].id = id
                  \/ calls[g].pc = "ready" /\ calls'[g].pc = "ready"
                       /\ calls'[g].op = "RegisterFile" /\ id \notin DOMAIN columnData']_vars

====
